---- MODULE Spec2Model ----
(***************************************************************************)
(* Interception and correlation layer of twitter-web-exporter:             *)
(* hook installation / repair / safe mode (ExtensionManager), the          *)
(* extension-manager singleton (getExtensionManager) and the page-message  *)
(* bridge with its response dedupe cache.                                  *)
(*                                                                         *)
(* Functions of the page realm are objects of a heap: fns[point] lists the   *)
(* functions that were ever reachable from an origination point            *)
(* (XMLHttpRequest.prototype.open / .send, fetch); the point and its       *)
(* stashed-original key hold the index of a function, 0 when they hold     *)
(* none. Functions no longer reachable from either are dropped.            *)
(***************************************************************************)
EXTENDS Integers, Sequences, FiniteSets, TLC

\* ---------------------------------------------------------------- constants
HOOK_REVISION == 3
EXTENSION_MANAGER_REVISION == 3
INDEX_EXTENSION_MANAGER_REVISION == 3
HOOK_REPAIR_INTERVAL_MS == 1100
HOOK_REPAIR_BACKOFF_MAX_MS == 60000
HOOK_REPAIR_FAILURE_LIMIT == 5
HOOK_STATE_CHAIN_DEPTH == 10

\* ------------------------------------------------------------------- bounds
MaxFns == 4
MaxManagers == 2
MaxHostMoves == 1

HookModes == {"both", "xhr", "fetch", "off"}
RepairModes == {"watchdog", "off"}

VARIABLES
  fns,               \* per origination point, the heap of page-realm function objects
  proto,             \* XMLHttpRequest.prototype: open, send and the stashed originals
  pageAny,           \* page global: fetch, stashed original, published runtime object and modes
  localStorage,      \* persisted runtime modes
  options,           \* operator options
  mgrs,              \* every ExtensionManager (and stale candidate) object created so far
  extensionManager,  \* module variable of index.ts
  globalManagerKey,  \* globalThis.__twe_extension_manager_v1
  hostMoves,         \* how many times the host page has interfered so far
  lastOp,            \* the operation the last step performed
  lastCall,          \* outcome of the last host call through an origination point
  now,               \* Date.now(), in ms
  recentResponseSigs, \* the dedupe cache: a Map, as the list of its entries in insertion order
  hookStats,         \* counters of the page-message bridge
  dispatched,        \* how many envelopes were handed to runInterceptors
  lastDispatchAt,    \* per signature, when a delivery with it was last dispatched
  lastSeenAt,        \* per signature, when a validated delivery with it last arrived
  lastDelivery,      \* what the bridge did with the last message
  bookmarks,         \* bookmark context: module state of the manager, page signals, requests in flight
  traffic,           \* the calls of the host through the wrappers, and the envelopes they posted
  capture            \* one useCaptureCount subscription: the closure of its effect and its count

hookVars == <<fns, proto, pageAny, localStorage, options, mgrs, extensionManager,
              globalManagerKey, hostMoves, lastOp, lastCall>>

bridgeVars == <<now, recentResponseSigs, hookStats, dispatched, lastDispatchAt,
                lastSeenAt, lastDelivery, bookmarks, traffic, capture>>

vars == <<hookVars, bridgeVars>>

\* a sequence point of the code: v is evaluated once, then F runs on its value
Bind(v, F(_)) == CHOOSE r \in {F(x) : x \in {v}} : TRUE

\* ------------------------------------------------------- function objects
\* kind: "native" (the host's own function), "hook" (a wrapper made by this
\* system, of any revision), "foreign" (an unrelated patch of the host);
\* markers / rev: the __twe_is_hook_*_v1 and __twe_is_hook_revision_v1 properties;
\* base: the function the closure calls through to; nested: the function's own
\* stashed-original property (wrappers of this revision have none);
\* dyn: the wrapper reads the stashed original from the page global at call time
NativeFn(point) ==
  [kind |-> "native", point |-> point, markers |-> {}, rev |-> 0, base |-> 0,
   nested |-> 0, dyn |-> FALSE]

HookFn(marker, revision, base, nested) ==
  [kind |-> "hook", point |-> marker, markers |-> {marker}, rev |-> revision,
   base |-> base, nested |-> nested,
   dyn |-> (marker = "fetch" /\ revision = HOOK_REVISION)]

ForeignFn(point, base) ==
  [kind |-> "foreign", point |-> point, markers |-> {}, rev |-> 0, base |-> base,
   nested |-> 0, dyn |-> FALSE]

\* reads the open marker whatever marker is asked for
hasHookVersionOpenMarker(F, target, marker) ==
  /\ target # 0
  /\ "open" \in F[target].markers
  /\ F[target].rev = HOOK_REVISION

hasHookVersion(F, target, marker) ==
  /\ target # 0
  /\ marker \in F[target].markers
  /\ F[target].rev = HOOK_REVISION

\* own marker or stashed-original property, or the source text of one of this
\* system's wrappers
hasHookShape(F, target, marker) ==
  /\ target # 0
  /\ \/ F[target].markers # {}
     \/ F[target].nested # 0
     \/ F[target].kind = "hook"

RECURSIVE HookStateWalk(_, _, _, _)
HookStateWalk(F, current, marker, i) ==
  IF i >= HOOK_STATE_CHAIN_DEPTH THEN 0
  ELSE LET nested == F[current].nested IN
       IF nested = 0 THEN 0
       ELSE IF ~hasHookShape(F, nested, marker) THEN nested
       ELSE HookStateWalk(F, nested, marker, i + 1)

getFunctionFromHookState(F, candidate, marker) ==
  IF candidate = 0 THEN 0
  ELSE IF ~hasHookShape(F, candidate, marker) THEN candidate
  ELSE HookStateWalk(F, candidate, marker, 0)

\* sets the marker and leaves the revision as it was
markHookFunctionMarkerOnly(F, fn, marker) ==
  IF fn = 0 THEN F
  ELSE [F EXCEPT ![fn].markers = @ \cup {marker}]

markHookFunction(F, fn, marker) ==
  IF fn = 0 THEN F
  ELSE [F EXCEPT ![fn].markers = @ \cup {marker}, ![fn].rev = HOOK_REVISION]

\* ------------------------------------------------------------ runtime modes
normalizeHookMode(value) ==
  IF value \in {"xhr", "fetch", "off"} THEN value ELSE "both"

normalizeRepairMode(value) ==
  IF value = "off" THEN "off" ELSE "watchdog"

\* "" stands for an absent key (null / undefined)
Coalesce(a, b) == IF a # "" THEN a ELSE b

resolveRuntimeModes(w) ==
  LET globalModes == w.pageAny.RUNTIME_MODES_KEY
      st == w.localStorage
      safeMode ==
        IF globalModes.present THEN globalModes.safeMode
        ELSE IF st.safeMode \in {"1", "true"} THEN TRUE
        ELSE IF st.safeMode \in {"0", "false"} THEN FALSE
        ELSE w.options.safeMode
      gHook == IF globalModes.present THEN globalModes.hookMode ELSE ""
      gRepair == IF globalModes.present THEN globalModes.repairMode ELSE ""
  IN [safeMode |-> safeMode,
      hookMode |-> normalizeHookMode(
                     Coalesce(gHook, Coalesce(st.hookMode, normalizeHookMode(w.options.hookMode)))),
      repairMode |-> normalizeRepairMode(
                     Coalesce(gRepair, Coalesce(st.repairMode, normalizeRepairMode(w.options.repairMode))))]

isHookModeEnabledInSafeMode(m, target) ==
  IF m.runtimeModes.hookMode = "off" THEN FALSE
  ELSE IF m.runtimeModes.hookMode = "both" THEN TRUE
  ELSE m.runtimeModes.hookMode = target

isHookModeEnabled(m, target) ==
  IF m.runtimeModes.safeMode THEN FALSE
  ELSE IF m.runtimeModes.hookMode = "off" THEN FALSE
  ELSE IF m.runtimeModes.hookMode = "both" THEN TRUE
  ELSE m.runtimeModes.hookMode = target

persistRuntimeModes(w, i) ==
  LET rm == w.mgrs[i].runtimeModes IN
  [w EXCEPT !.localStorage = [safeMode |-> IF rm.safeMode THEN "1" ELSE "0",
                              hookMode |-> rm.hookMode,
                              repairMode |-> rm.repairMode],
            !.options = [safeMode |-> rm.safeMode,
                         hookMode |-> rm.hookMode,
                         repairMode |-> rm.repairMode]]

publishRuntimeModes(w, i) ==
  LET rm == w.mgrs[i].runtimeModes IN
  [w EXCEPT !.pageAny.RUNTIME_MODES_KEY =
      [present |-> TRUE, safeMode |-> rm.safeMode,
       hookMode |-> rm.hookMode, repairMode |-> rm.repairMode]]

refreshRuntimeModes(w, i) ==
  Bind([w EXCEPT !.mgrs[i].runtimeModes = resolveRuntimeModes(w)], LAMBDA w1 :
  Bind(persistRuntimeModes(w1, i), LAMBDA w2 :
    publishRuntimeModes(w2, i)))


\* ------------------------------------------------------------------ timers
\* hookRepairInterval: -1 for null, else the delay the pending timeout was
\* set with
\* if (this.hookRepairInterval !== null) { clearTimeout(...); ... = null }
clearTimeout(m) ==
  IF m.hookRepairInterval = -1 THEN m
  ELSE [m EXCEPT !.hookRepairInterval = -1, !.pendingTimers = @ - 1]

\* this.hookRepairInterval = setTimeout(..., delayMs)
schedule(m, delayMs) ==
  [m EXCEPT !.hookRepairInterval = delayMs, !.pendingTimers = @ + 1]

\* ------------------------------------------------------------- uninstall
\* the part of uninstallHooks that touches the page: the stashed originals go
\* back to the origination points (nothing happens when the page global throws)
RestoreOriginals(w, env) ==
  IF env.accessThrows THEN w
  ELSE [w EXCEPT
          !.proto.open = IF w.proto.ORIG_XHR_OPEN_KEY # 0
                           THEN w.proto.ORIG_XHR_OPEN_KEY ELSE @,
          !.proto.send = IF w.proto.ORIG_XHR_SEND_KEY # 0
                           THEN w.proto.ORIG_XHR_SEND_KEY ELSE @,
          !.pageAny.fetch = IF w.pageAny.ORIG_FETCH_KEY # 0
                              THEN w.pageAny.ORIG_FETCH_KEY ELSE @]

\* clears the timer and leaves the origination points wrapped
uninstallHooksTimerOnly(w, i, env) ==
  [w EXCEPT !.mgrs[i] = clearTimeout(@)]

uninstallHooks(w, i, env) ==
  Bind([w EXCEPT !.mgrs[i] = clearTimeout(@)], LAMBDA w1 :
    RestoreOriginals(w1, env))

\* ------------------------------------------------------------- self test
runHookSelfTest(w, i, env) ==
  LET m == w.mgrs[i] IN
  IF m.runtimeModes.safeMode \/ m.runtimeModes.hookMode = "off" THEN TRUE
  ELSE IF env.accessThrows THEN FALSE
  ELSE /\ (isHookModeEnabled(m, "xhr") => (w.proto.open # 0 /\ w.proto.send # 0))
       /\ (isHookModeEnabled(m, "fetch") => w.pageAny.fetch # 0)

\* ------------------------------------------------------------- safe mode
\* uninstalls and stops the timer, and leaves the mode as it was
enableSafeModeNotRecorded(w, i, env) ==
  Bind(uninstallHooks(w, i, env), LAMBDA w1 :
    [w1 EXCEPT !.mgrs[i] = clearTimeout(@)])

enableSafeMode(w, i, env) ==
  Bind([w EXCEPT !.mgrs[i].runtimeModes.safeMode = TRUE,
                 !.mgrs[i].runtimeModeReason = "reason"], LAMBDA w1 :
  Bind(persistRuntimeModes(w1, i), LAMBDA w2 :
  Bind(publishRuntimeModes(w2, i), LAMBDA w3 :
  Bind(uninstallHooks(w3, i, env), LAMBDA w4 :
    [w4 EXCEPT !.mgrs[i] = clearTimeout(@)]))))

\* --------------------------------------------------------------- install
\* defineOn: FALSE when the host rejects the patch
defineOn(env) == env.defineOk

installHttpHooksBody(w, i, force, env) ==
  LET currentOpen == w.proto.open
      currentSend == w.proto.send
      stashOpen == IF w.proto.ORIG_XHR_OPEN_KEY = 0 /\ currentOpen # 0
                     THEN currentOpen ELSE w.proto.ORIG_XHR_OPEN_KEY
      stashSend == IF w.proto.ORIG_XHR_SEND_KEY = 0 /\ currentSend # 0
                     THEN currentSend ELSE w.proto.ORIG_XHR_SEND_KEY
      wrappedSendFromState == getFunctionFromHookState(w.fns["send"], currentSend, "send")
      wrappedOpenFromState == getFunctionFromHookState(w.fns["open"], currentOpen, "open")
  IN
  Bind(IF wrappedSendFromState # 0 THEN wrappedSendFromState
       ELSE IF stashSend # 0 THEN stashSend ELSE currentSend, LAMBDA sendBase :
  Bind(IF wrappedOpenFromState # 0 THEN wrappedOpenFromState
       ELSE IF stashOpen # 0 THEN stashOpen ELSE currentOpen, LAMBDA openBase :
  Bind(force \/ ~hasHookVersion(w.fns["send"], currentSend, "send"), LAMBDA sendNeedsRepair :
  Bind(/\ ~force
       /\ hasHookVersion(w.fns["open"], currentOpen, "open")
       /\ hasHookVersion(w.fns["send"], currentSend, "send"), LAMBDA openUpToDate :
  Bind([w EXCEPT !.proto.ORIG_XHR_OPEN_KEY = stashOpen,
                 !.proto.ORIG_XHR_SEND_KEY = stashSend], LAMBDA w1 :
  \* the send wrapper
  Bind(IF ~sendNeedsRepair THEN w1
       ELSE IF defineOn(env)
         THEN [w1 EXCEPT !.fns["send"] = Append(@, HookFn("send", HOOK_REVISION, sendBase, 0)),
                         !.proto.send = Len(w1.fns["send"]) + 1,
                         !.defined = @ \cup {"send"}]
         ELSE [w1 EXCEPT !.fns["send"] = markHookFunction(@, w1.proto.send, "send")],
       LAMBDA w2 :
  \* the open wrapper
  Bind([w2 EXCEPT !.proto.ORIG_XHR_OPEN_KEY = openBase,
                  !.proto.ORIG_XHR_SEND_KEY = sendBase], LAMBDA w3 :
  Bind(IF defineOn(env)
         THEN [w3 EXCEPT !.fns["open"] = Append(@, HookFn("open", HOOK_REVISION, openBase, 0)),
                         !.proto.open = Len(w3.fns["open"]) + 1,
                         !.defined = @ \cup {"open"}]
         ELSE w3, LAMBDA w4 :
  Bind([w4 EXCEPT !.fns["open"] = markHookFunction(@, w4.proto.open, "open"),
                  !.fns["send"] = markHookFunction(@, w4.proto.send, "send")], LAMBDA w5 :
    IF currentOpen = 0                  \* throws 'open not available', caught
      THEN [w EXCEPT !.failed = TRUE]
    ELSE IF sendBase = 0                \* throws 'send not available', caught
      THEN [w1 EXCEPT !.failed = TRUE]
    ELSE IF openUpToDate THEN w2
    ELSE w5)))))))))

installHttpHooks(w, i, force, env) ==
  IF ~isHookModeEnabled(w.mgrs[i], "xhr") THEN w
  ELSE IF env.accessThrows               \* thrown inside the try block, caught and logged
    THEN [w EXCEPT !.failed = TRUE]
  ELSE installHttpHooksBody(w, i, force, env)

installFetchHooksBody(w, i, force, env) ==
  LET fetchNative == w.pageAny.fetch
      existingFetch == w.pageAny.fetch
  IN
  Bind(getFunctionFromHookState(w.fns["fetch"], existingFetch, "fetch"),
       LAMBDA fetchBaseFromState :
  Bind(IF fetchBaseFromState # 0 THEN fetchBaseFromState ELSE fetchNative, LAMBDA fetchBase :
  Bind([w EXCEPT !.pageAny.ORIG_FETCH_KEY = fetchBase], LAMBDA w1 :
  Bind(IF defineOn(env)
         THEN [w1 EXCEPT !.fns["fetch"] = Append(@, HookFn("fetch", HOOK_REVISION, fetchBase, 0)),
                         !.pageAny.fetch = Len(w1.fns["fetch"]) + 1,
                         !.defined = @ \cup {"fetch"}]
         ELSE w1, LAMBDA w2 :
    IF fetchNative = 0 THEN [w EXCEPT !.failed = TRUE]
    ELSE IF ~force /\ hasHookVersion(w.fns["fetch"], existingFetch, "fetch") THEN w
    ELSE [w2 EXCEPT !.fns["fetch"] = markHookFunction(@, w2.pageAny.fetch, "fetch")]))))

\* installFetchHooks has no try block of its own: a throwing page global
\* propagates to the caller (field threw)
installFetchHooks(w, i, force, env) ==
  IF ~isHookModeEnabled(w.mgrs[i], "fetch") THEN w
  ELSE IF env.accessThrows THEN [w EXCEPT !.threw = TRUE, !.failed = TRUE]
  ELSE installFetchHooksBody(w, i, force, env)

\* ------------------------------------------------------------ repair loop
\* schedules without looking at the pending timer
startHookRepairLoopUnguarded(w, i) ==
  LET m == w.mgrs[i] IN
  IF m.runtimeModes.safeMode \/ m.runtimeModes.repairMode = "off" THEN w
  ELSE [w EXCEPT !.mgrs[i] = schedule(@, 0)]

startHookRepairLoop(w, i) ==
  LET m == w.mgrs[i] IN
  IF m.runtimeModes.safeMode \/ m.runtimeModes.repairMode = "off" THEN w
  ELSE IF m.hookRepairInterval # -1 THEN w
  ELSE [w EXCEPT !.mgrs[i] = schedule(@, 0)]

Min(a, b) == IF a < b THEN a ELSE b

\* the timer callback: hookRepairInterval = null, then repair()
repair(w0, i, env) ==
  Bind([w0 EXCEPT !.mgrs[i].hookRepairInterval = -1,
                  !.mgrs[i].pendingTimers = @ - 1], LAMBDA w :
  Bind(w.mgrs[i], LAMBDA m :
  Bind(installHttpHooks([w EXCEPT !.ran = TRUE], i, TRUE, env), LAMBDA w1 :
  Bind(installFetchHooks(w1, i, TRUE, env), LAMBDA w2 :
  \* catch block
  Bind(m.hookRepairFailures + 1, LAMBDA failures :
  Bind(Min(m.hookRepairBackoffMs * 2, HOOK_REPAIR_BACKOFF_MAX_MS), LAMBDA backoff :
  Bind([w1 EXCEPT !.threw = FALSE,
                  !.calls = Append(@, <<"repair", "catch">>),
                  !.mgrs[i].hookRepairFailures = failures,
                  !.mgrs[i].hookRepairBackoffMs = backoff], LAMBDA wf :
  \* success path
  Bind([w2 EXCEPT !.calls = Append(@, <<"repair", "ok">>),
                  !.mgrs[i].hookRepairFailures = 0,
                  !.mgrs[i].hookRepairBackoffMs = HOOK_REPAIR_INTERVAL_MS], LAMBDA ws :
    IF m.runtimeModes.safeMode \/ m.runtimeModes.repairMode = "off" THEN w
    ELSE IF w2.threw
      THEN IF failures >= HOOK_REPAIR_FAILURE_LIMIT
             THEN enableSafeMode(wf, i, env)
             ELSE [wf EXCEPT !.mgrs[i] = schedule(@, backoff)]
    ELSE IF ~runHookSelfTest(w2, i, env)
      THEN enableSafeMode([w2 EXCEPT !.calls = Append(@, <<"repair", "self-test-failed">>)],
                          i, env)
    ELSE [ws EXCEPT !.mgrs[i] = schedule(@, HOOK_REPAIR_INTERVAL_MS)]))))))))


\* ------------------------------------------------------ extension registry
\* extensions: the Map name -> instance, as the list of its values in
\* insertion order; an instance: its name, its identity (id), enabled, and
\* what its methods do when called: intercept is "fn" (returns an
\* interceptor), "none" (returns nothing), "throws" (intercept() throws) or
\* "fn-throws" (the interceptor it returns throws); made counts the instances
\* constructed so far; calls lists the consumer methods called during an
\* operation and the writes of the Map, in order
ExtensionIndex(extensions, name) ==
  IF \E k \in DOMAIN extensions : extensions[k].name = name
    THEN CHOOSE k \in DOMAIN extensions : extensions[k].name = name
    ELSE 0

\* new ctor(this)
NewExtension(ctor, id) ==
  [name |-> ctor.name, id |-> id, enabled |-> ctor.enabled, intercept |-> ctor.intercept,
   setupThrows |-> ctor.setupThrows, disposeThrows |-> ctor.disposeThrows]

\* stores the new instance without looking at the previous one
addWithoutDispose(w, i, ctor) ==
  IF ctor.ctorThrows THEN w
  ELSE
  Bind(w.mgrs[i].made + 1, LAMBDA id :
  Bind(ExtensionIndex(w.mgrs[i].extensions, ctor.name), LAMBDA k :
    [w EXCEPT !.mgrs[i].made = id,
              !.mgrs[i].extensions = IF k # 0 THEN [@ EXCEPT ![k] = NewExtension(ctor, id)]
                                     ELSE Append(@, NewExtension(ctor, id)),
              !.calls = Append(@, <<"set", id>>)]))

add(w, i, ctor) ==
  IF ctor.ctorThrows THEN w            \* caught and logged
  ELSE
  Bind(w.mgrs[i].made + 1, LAMBDA id :
  Bind(ExtensionIndex(w.mgrs[i].extensions, ctor.name), LAMBDA k :
  \* previous.dispose(), a throw of which is caught
  Bind(IF k # 0 /\ w.mgrs[i].extensions[k].enabled
         THEN [w EXCEPT !.calls = Append(@, <<"dispose", w.mgrs[i].extensions[k].id>>)]
         ELSE w, LAMBDA w1 :
    [w1 EXCEPT !.mgrs[i].made = id,
               !.mgrs[i].extensions = IF k # 0 THEN [@ EXCEPT ![k] = NewExtension(ctor, id)]
                                      ELSE Append(@, NewExtension(ctor, id)),
               !.calls = Append(@, <<"set", id>>)])))

enable(w, i, name) ==
  Bind([w EXCEPT !.mgrs[i].disabledExtensions = @ \ {name}], LAMBDA w1 :
  Bind(ExtensionIndex(w1.mgrs[i].extensions, name), LAMBDA k :
    IF k = 0 THEN w1                   \* ext is undefined: TypeError, caught
    ELSE IF w1.mgrs[i].extensions[k].enabled THEN w1
    ELSE
    Bind([w1 EXCEPT !.mgrs[i].extensions[k].enabled = TRUE,
                    !.calls = Append(@, <<"setup", w1.mgrs[i].extensions[k].id>>)],
         LAMBDA w2 :
      IF w2.mgrs[i].extensions[k].setupThrows THEN w2      \* caught and logged
      ELSE [w2 EXCEPT !.mgrs[i].signal = @ + 1])))

disable(w, i, name) ==
  Bind([w EXCEPT !.mgrs[i].disabledExtensions = @ \cup {name}], LAMBDA w1 :
  Bind(ExtensionIndex(w1.mgrs[i].extensions, name), LAMBDA k :
    IF k = 0 THEN w1                   \* ext is undefined: TypeError, caught
    ELSE IF ~w1.mgrs[i].extensions[k].enabled THEN w1
    ELSE
    Bind([w1 EXCEPT !.mgrs[i].extensions[k].enabled = FALSE,
                    !.calls = Append(@, <<"dispose", w1.mgrs[i].extensions[k].id>>)],
         LAMBDA w2 :
      IF w2.mgrs[i].extensions[k].disposeThrows THEN w2    \* caught and logged
      ELSE [w2 EXCEPT !.mgrs[i].signal = @ + 1])))

\* start(): every registered extension is disabled when its name is in
\* disabledExtensions and enabled otherwise
RECURSIVE startFrom(_, _, _)
startFrom(w, i, k) ==
  IF k > Len(w.mgrs[i].extensions) THEN w
  ELSE Bind(w.mgrs[i].extensions[k].name, LAMBDA name :
       Bind(IF name \in w.mgrs[i].disabledExtensions
              THEN disable(w, i, name) ELSE enable(w, i, name), LAMBDA w1 :
         startFrom(w1, i, k + 1)))

start(w, i) == startFrom(w, i, 1)

\* the extension part of dispose(): every enabled extension is switched off
\* and disposed, each inside its own try block
RECURSIVE disposeExtensionsFrom(_, _, _)
disposeExtensionsFrom(w, i, k) ==
  IF k > Len(w.mgrs[i].extensions) THEN w
  ELSE Bind(IF w.mgrs[i].extensions[k].enabled
              THEN [w EXCEPT !.mgrs[i].extensions[k].enabled = FALSE,
                             !.calls = Append(@, <<"dispose", w.mgrs[i].extensions[k].id>>)]
              ELSE w, LAMBDA w1 :
         disposeExtensionsFrom(w1, i, k + 1))

\* --- runInterceptors: the calls made on the extensions that are enabled when
\* the dispatch starts, each extension inside its own try block
InterceptThrows(ext) == ext.intercept \in {"throws", "fn-throws"}

InterceptCalls(ext) ==
  IF ext.intercept \in {"fn", "fn-throws"}
    THEN <<<<"intercept", ext.id>>, <<"interceptor", ext.id>>>>
    ELSE <<<<"intercept", ext.id>>>>

\* one try block around the whole loop: the first throw ends the dispatch
RECURSIVE runInterceptorsOneTryBlock(_)
runInterceptorsOneTryBlock(extensions) ==
  IF extensions = <<>> THEN <<>>
  ELSE IF ~Head(extensions).enabled
    THEN Bind(Tail(extensions), LAMBDA rest : runInterceptorsOneTryBlock(rest))
  ELSE IF InterceptThrows(Head(extensions)) THEN InterceptCalls(Head(extensions))
  ELSE InterceptCalls(Head(extensions))
       \o Bind(Tail(extensions), LAMBDA rest : runInterceptorsOneTryBlock(rest))

RECURSIVE runInterceptors(_)
runInterceptors(extensions) ==
  IF extensions = <<>> THEN <<>>
  ELSE IF ~Head(extensions).enabled
    THEN Bind(Tail(extensions), LAMBDA rest : runInterceptors(rest))
  ELSE InterceptCalls(Head(extensions))
       \o Bind(Tail(extensions), LAMBDA rest : runInterceptors(rest))

\* --------------------------------------------------------------- dispose
disposeUnguarded(w, i, env) ==
  Bind([w EXCEPT !.mgrs[i].disposed = TRUE], LAMBDA w1 :
  Bind(disposeExtensionsFrom(w1, i, 1), LAMBDA w2 :
  Bind([w2 EXCEPT !.mgrs[i] = [clearTimeout(@) EXCEPT !.pageMessageHandler = FALSE]],
       LAMBDA w3 :
    uninstallHooks(w3, i, env))))

dispose(w, i, env) ==
  IF w.mgrs[i].disposed THEN w
  ELSE Bind([w EXCEPT !.mgrs[i].disposed = TRUE], LAMBDA w1 :
       Bind(disposeExtensionsFrom(w1, i, 1), LAMBDA w2 :
       Bind([w2 EXCEPT !.mgrs[i] = [clearTimeout(@) EXCEPT !.pageMessageHandler = FALSE]],
            LAMBDA w3 :
         uninstallHooks(w3, i, env))))

\* ----------------------------------------------------------- constructor
NoRuntime == [present |-> FALSE, rev |-> 0, signatureOk |-> FALSE, owner |-> 0]

NewManager(w) ==
  [ours |-> TRUE, signatureOk |-> TRUE, revision |-> EXTENSION_MANAGER_REVISION,
   shape |-> TRUE, disposed |-> FALSE,
   runtimeModes |-> resolveRuntimeModes(w),
   runtimeModeReason |-> "",       \* set by enableSafeMode, whatever the text
   hookRepairInterval |-> -1,
   pendingTimers |-> 0,            \* timeouts of this manager set and neither fired nor cleared
   hookRepairBackoffMs |-> HOOK_REPAIR_INTERVAL_MS,
   hookRepairFailures |-> 0,
   pageMessageHandler |-> FALSE,
   extensions |-> <<>>,
   disabledExtensions |-> {},
   signal |-> 1,
   made |-> 0]

\* uninstall() of the object published under HOOK_RUNTIME_KEY
RuntimeUninstallCall(w, env) ==
  LET rt == w.pageAny.HOOK_RUNTIME_KEY IN
  IF ~rt.present THEN w
  ELSE IF rt.owner # 0 THEN uninstallHooks(w, rt.owner, env)
  ELSE RestoreOriginals(w, env)

\* The page-global marks of the bookmark context tracking: the popstate and
\* hashchange listeners, the click listener, the polling interval (1200 ms)
\* and the mutation observer, each installed once per page; a throw while
\* the page is accessed ends the installation (caught by the constructor)
installBookmarkContextTracking(w, env) ==
  IF env.accessThrows THEN w
  ELSE [w EXCEPT !.pageAny.bookmark_context_listeners = TRUE,
                 !.pageAny.bookmark_context_click = TRUE,
                 !.pageAny.bookmark_context_interval = TRUE,
                 !.pageAny.bookmark_context_mutation = TRUE]

constructor(w, env) ==
  Bind(Len(w.mgrs) + 1, LAMBDA i :
  Bind([w EXCEPT !.mgrs = Append(w.mgrs, NewManager(w))], LAMBDA w0 :
  Bind(refreshRuntimeModes(w0, i), LAMBDA w1 :
  Bind([w1 EXCEPT !.mgrs[i].pageMessageHandler = TRUE], LAMBDA wb :
  Bind(installBookmarkContextTracking(wb, env), LAMBDA w2 :
  Bind(installHttpHooks(w2, i, FALSE, env), LAMBDA w3 :
  Bind(installFetchHooks(w3, i, FALSE, env), LAMBDA w4 :
  Bind(IF w4.threw
         THEN Bind([w4 EXCEPT !.threw = FALSE], LAMBDA wc : enableSafeMode(wc, i, env))
       ELSE IF ~runHookSelfTest(w4, i, env) THEN enableSafeMode(w4, i, env)
       ELSE IF ~w4.mgrs[i].runtimeModes.safeMode
               /\ w4.mgrs[i].runtimeModes.repairMode # "off"
         THEN startHookRepairLoop(w4, i)
       ELSE w4, LAMBDA w5 :
  Bind([w5 EXCEPT !.globalManagerKey = i], LAMBDA w6 :
  Bind(w6.pageAny.HOOK_RUNTIME_KEY, LAMBDA rt :
  Bind(IF rt.present /\ (rt.rev # HOOK_REVISION \/ ~rt.signatureOk)
         THEN RuntimeUninstallCall(w6, env) ELSE w6, LAMBDA w7 :
    IF env.accessThrows THEN w6
    ELSE [w7 EXCEPT !.pageAny.HOOK_RUNTIME_KEY =
            [present |-> TRUE, rev |-> HOOK_REVISION, signatureOk |-> TRUE,
             owner |-> i]])))))))))))

\* ------------------------------------------------- extension-manager singleton
isExtensionManagerLikeAnyRevision(w, candidate) ==
  /\ candidate # 0
  /\ w.mgrs[candidate].signatureOk
  /\ w.mgrs[candidate].shape
  /\ ~w.mgrs[candidate].disposed

isExtensionManagerLike(w, candidate) ==
  /\ candidate # 0
  /\ w.mgrs[candidate].signatureOk
  /\ w.mgrs[candidate].revision = INDEX_EXTENSION_MANAGER_REVISION
  /\ w.mgrs[candidate].shape
  /\ ~w.mgrs[candidate].disposed

\* teardown of a rejected candidate: dispose(), uninstallHooks() (uninstall() is
\* no method of a manager object)
TearDownCandidate(w, existing, env) ==
  IF existing = 0 \/ ~w.mgrs[existing].shape THEN w
  ELSE Bind(dispose(w, existing, env), LAMBDA w1 : uninstallHooks(w1, existing, env))

\* constructs the replacement first and tears the rejected candidate down after
getExtensionManagerTearDownLast(w, env) ==
  LET existing == w.globalManagerKey IN
  IF w.extensionManager # 0 /\ ~w.mgrs[w.extensionManager].disposed THEN w
  ELSE IF isExtensionManagerLike(w, existing)
    THEN [w EXCEPT !.extensionManager = existing, !.globalManagerKey = existing]
  ELSE Bind(constructor(w, env), LAMBDA w1 :
       Bind(TearDownCandidate(w1, existing, env), LAMBDA w2 :
         [w2 EXCEPT !.globalManagerKey = Len(w2.mgrs),
                    !.extensionManager = Len(w2.mgrs)]))

getExtensionManager(w, env) ==
  LET existing == w.globalManagerKey IN
  IF w.extensionManager # 0 /\ ~w.mgrs[w.extensionManager].disposed THEN w
  ELSE IF isExtensionManagerLike(w, existing)
    THEN [w EXCEPT !.extensionManager = existing, !.globalManagerKey = existing]
  ELSE Bind(TearDownCandidate(w, existing, env), LAMBDA w1 :
       Bind(constructor(w1, env), LAMBDA w2 :
         [w2 EXCEPT !.globalManagerKey = Len(w2.mgrs),
                    !.extensionManager = Len(w2.mgrs)]))

\* ---------------------------------------------------- calls of the host page
Points == {"open", "send", "fetch"}

PointFn(w, point) ==
  IF point = "open" THEN w.proto.open
  ELSE IF point = "send" THEN w.proto.send
  ELSE w.pageAny.fetch

OrigKey(w, point) ==
  IF point = "open" THEN w.proto.ORIG_XHR_OPEN_KEY
  ELSE IF point = "send" THEN w.proto.ORIG_XHR_SEND_KEY
  ELSE w.pageAny.ORIG_FETCH_KEY

\* the function a call of f goes on to: the XHR wrappers call the base of
\* their closure, the fetch wrapper calls pageAny[ORIG_FETCH_KEY] ?? fetchBase,
\* a patch of the host calls what it replaced
CallThrough(w, point, f) ==
  LET fn == w.fns[point][f] IN
  IF fn.dyn /\ w.pageAny.ORIG_FETCH_KEY # 0 THEN w.pageAny.ORIG_FETCH_KEY ELSE fn.base

\* outcome of calling f: the host's original runs, or the chain of
\* call-throughs never reaches it (RangeError: maximum call stack size)
RECURSIVE Invoke(_, _, _, _)
Invoke(w, point, f, fuel) ==
  IF f = 0 THEN "not-a-function"
  ELSE IF fuel = 0 THEN "stack-overflow"
  ELSE IF w.fns[point][f].kind = "native" THEN "original"
  ELSE Bind(CallThrough(w, point, f), LAMBDA g : Invoke(w, point, g, fuel - 1))

\* how many wrappers of this system a call of f passes through
RECURSIVE WrapCount(_, _, _, _)
WrapCount(w, point, f, fuel) ==
  IF f = 0 \/ fuel = 0 THEN 0
  ELSE IF w.fns[point][f].kind = "native" THEN 0
  ELSE (IF w.fns[point][f].kind = "hook" THEN 1 ELSE 0)
       + Bind(CallThrough(w, point, f), LAMBDA g : WrapCount(w, point, g, fuel - 1))

\* -------------------------------------------- unreachable function objects
RECURSIVE Closure(_, _)
Closure(F, S) ==
  Bind((S \cup {F[x].base : x \in S} \cup {F[x].nested : x \in S}) \ {0}, LAMBDA N :
    IF N = S THEN S ELSE Closure(F, N))

Rank(R, x) == IF x = 0 THEN 0 ELSE Cardinality({y \in R : y <= x})

Compact(F, R) ==
  [k \in 1..Cardinality(R) |->
     LET x == CHOOSE y \in R : Rank(R, y) = k IN
     [F[x] EXCEPT !.base = Rank(R, @), !.nested = Rank(R, @)]]

Collect(w) ==
  Bind([p \in Points |-> Closure(w.fns[p], {PointFn(w, p), OrigKey(w, p)} \ {0})],
       LAMBDA R :
    [w EXCEPT
       !.fns = [p \in Points |-> Compact(w.fns[p], R[p])],
       !.proto = [open |-> Rank(R["open"], w.proto.open),
                  send |-> Rank(R["send"], w.proto.send),
                  ORIG_XHR_OPEN_KEY |-> Rank(R["open"], w.proto.ORIG_XHR_OPEN_KEY),
                  ORIG_XHR_SEND_KEY |-> Rank(R["send"], w.proto.ORIG_XHR_SEND_KEY)],
       !.pageAny.fetch = Rank(R["fetch"], @),
       !.pageAny.ORIG_FETCH_KEY = Rank(R["fetch"], @)])

\* ======================================================================
\* Page-message bridge: validation, counters, response dedupe, dispatch
\* ======================================================================
RESPONSE_DEDUPE_WINDOW_MS == 2600
RESPONSE_DEDUPE_MAX_ENTRIES == 500
RESPONSE_DEDUPE_CLEANUP_COUNT == 120
ENDPOINT_METRIC_LIMIT == 40

\* --- hashText: 32-bit FNV-1a over the UTF-16 code units, kept as two 16-bit
\* halves; text is the sequence of its code units
RECURSIVE BitXor(_, _)
BitXor(a, b) ==
  IF a = 0 THEN b
  ELSE IF b = 0 THEN a
  ELSE (((a % 2) + (b % 2)) % 2)
       + 2 * Bind(a \div 2, LAMBDA x : Bind(b \div 2, LAMBDA y : BitXor(x, y)))

\* Math.imul(hash, 16777619): 16777619 = 2^24 + 403
Imul16777619(h) ==
  LET low == h.lo * 403 IN
  [hi |-> (h.hi * 403 + h.lo * 256 + (low \div 65536)) % 65536,
   lo |-> low % 65536]

RECURSIVE HashFrom(_, _, _)
HashFrom(h, text, i) ==
  IF i > Len(text) THEN h
  ELSE Bind([hi |-> h.hi, lo |-> BitXor(h.lo, text[i])], LAMBDA x :
       Bind(Imul16777619(x), LAMBDA next : HashFrom(next, text, i + 1)))

RECURSIVE HexDigits(_)
HexDigits(n) ==
  IF n < 16 THEN <<n>>
  ELSE Append(Bind(n \div 16, LAMBDA q : HexDigits(q)), n % 16)

\* (hash >>> 0).toString(16): hexadecimal digits, no leading zero
toString16(h) ==
  IF h.hi = 0 THEN HexDigits(h.lo)
  ELSE HexDigits(h.hi) \o <<h.lo \div 4096, (h.lo \div 256) % 16, (h.lo \div 16) % 16, h.lo % 16>>

\* 2166136261 = 0x811C9DC5
hashText(text) ==
  Bind([hi |-> 33052, lo |-> 40389], LAMBDA offset :
  Bind(HashFrom(offset, text, 1), LAMBDA hash : toString16(hash)))

toUpperCase(method) ==
  CASE method = "get" -> "GET"
    [] method = "post" -> "POST"
    [] OTHER -> method

\* the template string `${method.toUpperCase()} ${url} ${status} ${hashText(responseText)}`
createRequestSignature(method, url, status, responseText) ==
  Bind(hashText(responseText), LAMBDA hash : <<toUpperCase(method), url, status, hash>>)

\* --- URLs of the model and their pathname (new URL(url, 'https://x.com').pathname)
TimelineUrl == "https://x.com/i/api/graphql/q1/HomeTimeline"
BookmarksUrl == "https://x.com/i/api/graphql/q2/Bookmarks"

pathname(url) ==
  CASE url = TimelineUrl -> <<"i", "api", "graphql", "q1", "HomeTimeline">>
    [] url = BookmarksUrl -> <<"i", "api", "graphql", "q2", "Bookmarks">>
    [] OTHER -> <<>>

toLowerCase(segment) ==
  CASE segment = "HomeTimeline" -> "hometimeline"
    [] segment = "Bookmarks" -> "bookmarks"
    [] OTHER -> segment

\* the regular expression of isBookmarksApiRequest, tested on the lower-cased
\* path (a path segment of the model contains one of the words only when it
\* is that word)
isBookmarksApiRequest(url) ==
  \E i \in DOMAIN pathname(url) :
    toLowerCase(pathname(url)[i]) \in
      {"bookmarks", "bookmarkfolderslice", "bookmarkfoldertimeline",
       "bookmarkcollectiontimeline", "bookmarkcollectionstimeline"}

extractBookmarksEndpoint(url) ==
  LET path == [i \in DOMAIN pathname(url) |-> toLowerCase(pathname(url)[i])]
      G == {i \in DOMAIN path : path[i] = "graphql" /\ i + 2 <= Len(path)}
      A == {i \in DOMAIN path : /\ i + 3 <= Len(path)
                                /\ path[i] = "i" /\ path[i + 1] = "api" /\ path[i + 2] = "1.1"}
      Least(S) == CHOOSE i \in S : \A j \in S : i <= j
  IN IF G # {} THEN <<"graphql", path[Least(G) + 2]>>
     ELSE IF A # {} THEN <<"api", path[Least(A) + 3]>>
     ELSE <<"other">>

\* --- the dedupe cache (a Map: insertion order, set() of a present key keeps its place)
\* now - prev.at < RESPONSE_DEDUPE_WINDOW_MS
WithinDedupeWindowInclusive(prevAt, t) == t - prevAt <= RESPONSE_DEDUPE_WINDOW_MS

WithinDedupeWindow(prevAt, t) == t - prevAt < RESPONSE_DEDUPE_WINDOW_MS

MapIndex(map, key) ==
  IF \E i \in DOMAIN map : map[i].sig = key
    THEN CHOOSE i \in DOMAIN map : map[i].sig = key
    ELSE 0

MapSetNotRecorded(map, key, at) == map

MapSet(map, key, at) ==
  Bind(MapIndex(map, key), LAMBDA i :
    IF i # 0
      THEN [map EXCEPT ![i].at = at]
      ELSE Append(map, [sig |-> key, at |-> at]))

\* deletes the oldest entries whatever their age
cleanupSignatureCacheAnyAge(map, t) ==
  IF Len(map) <= RESPONSE_DEDUPE_MAX_ENTRIES THEN map
  ELSE
    Bind(DOMAIN map, LAMBDA stale :
    Bind({map[i].sig : i \in {k \in stale :
            Cardinality({j \in stale : \/ map[j].at < map[k].at
                                       \/ (map[j].at = map[k].at /\ j < k)})
              < RESPONSE_DEDUPE_CLEANUP_COUNT}}, LAMBDA doomed :
      SelectSeq(map, LAMBDA e : e.sig \notin doomed)))

\* entries older than the window, oldest first (a stable sort), at most
\* RESPONSE_DEDUPE_CLEANUP_COUNT of them, are deleted; nothing happens while
\* the map holds at most RESPONSE_DEDUPE_MAX_ENTRIES entries
cleanupSignatureCache(map, t) ==
  IF Len(map) <= RESPONSE_DEDUPE_MAX_ENTRIES THEN map
  ELSE
    Bind({i \in DOMAIN map : t - map[i].at > RESPONSE_DEDUPE_WINDOW_MS}, LAMBDA stale :
    Bind({map[i].sig : i \in {k \in stale :
            Cardinality({j \in stale : \/ map[j].at < map[k].at
                                       \/ (map[j].at = map[k].at /\ j < k)})
              < RESPONSE_DEDUPE_CLEANUP_COUNT}}, LAMBDA doomed :
      SelectSeq(map, LAMBDA e : e.sig \notin doomed)))

\* --- counters
createEndpointMetrics(key) ==
  [key |-> key, received |-> 0, processed |-> 0, skippedDuplicate |-> 0,
   legacyShape |-> 0, missingContext |-> 0, lastAt |-> 0, lastStatus |-> 0, lastUrl |-> ""]

createHookStats ==
  [xhrMessages |-> 0, fetchMessages |-> 0, lastUrl |-> "", lastAt |-> 0,
   messagesTotal |-> 0, messagesLegacyShape |-> 0, messagesMissingContext |-> 0,
   messagesRepairedAtBridge |-> 0, messagesMissingBody |-> 0,
   responsesProcessed |-> 0, responsesSkippedDuplicate |-> 0, lastMessageAt |-> 0,
   endpointStats |-> <<>>]

EndpointIndex(stats, key) ==
  IF \E i \in DOMAIN stats : stats[i].key = key
    THEN CHOOSE i \in DOMAIN stats : stats[i].key = key
    ELSE 0

\* endpointStats after getEndpointStats(key): the entry exists, the oldest
\* entry having been deleted first when the limit was reached
getEndpointStats(stats, key) ==
  IF EndpointIndex(stats, key) # 0 THEN stats
  ELSE IF Len(stats) >= ENDPOINT_METRIC_LIMIT
    THEN Bind(Tail(stats), LAMBDA rest : Append(rest, createEndpointMetrics(key)))
  ELSE Append(stats, createEndpointMetrics(key))

Bump(b) == IF b THEN 1 ELSE 0

\* ======================================================================
\* Bookmark context resolution
\* ======================================================================
BOOKMARK_CONTEXT_BOOKMARKS_ONLY_STALE_MS == 45000
BOOKMARK_CONTEXT_LOCK_TTL_MS == 180000

\* A page URL is its route: "home", "bookmarks" (/i/bookmarks) or "folder"
\* (/i/bookmarks/<folderId>); NoUrl is the empty string. A folder id is a
\* number, 0 standing for null.
NoUrl == [route |-> "", folderId |-> 0]
HomeUrl == [route |-> "home", folderId |-> 0]
BookmarksRootUrl == [route |-> "bookmarks", folderId |-> 0]
FolderUrl(id) == [route |-> "folder", folderId |-> id]

\* the folder id of captureBookmarkRouteFromUrl(url): pathname.match(/\/bookmarks\/(\d+)/)
captureBookmarkRouteFromUrl(url) == IF url.route = "folder" THEN url.folderId ELSE 0

isBookmarksRoute(url) == url.route \in {"bookmarks", "folder"}

\* a BookmarkContextPayload; present = FALSE is null or undefined
Payload(folderId, pageUrl, source, capturedAt, routeSource) ==
  [present |-> TRUE, folderId |-> folderId, pageUrl |-> pageUrl, source |-> source,
   capturedAt |-> capturedAt, routeSource |-> routeSource]

NoContext ==
  [present |-> FALSE, folderId |-> 0, pageUrl |-> NoUrl, source |-> "", capturedAt |-> 0,
   routeSource |-> ""]

\* A request as the resolver sees it: bookmarks (isBookmarksApiRequest(url)),
\* queryId (a folder key of the query with a numeric value), variablesId (the
\* id found in the decoded variables parameter), bodyId (the id found in the
\* parsed body; 0 also when there is no body)
extractFolderIdFromBookmarkRequestUrl(req) ==
  IF req.queryId # 0 THEN req.queryId ELSE req.variablesId

extractFolderIdFromBookmarkRequestBody(req) == req.bodyId

\* page: url (location.href, also document.URL) and scanId, the folder of the
\* best candidate among tabs, history state, navigation entry and global
\* state; the page has no canonical or og:url element
captureBookmarkRouteFromPage(page) ==
  IF page.scanId # 0
    THEN [folderId |-> page.scanId, pageUrl |-> page.url, source |-> "page-state"]
    ELSE [folderId |-> captureBookmarkRouteFromUrl(page.url), pageUrl |-> page.url,
          source |-> "location"]

\* locks: the module variable, then the copies under the key of
\* hookGlobalObject, window and globalThis
LockUsable(lock, t) ==
  /\ lock.present
  /\ lock.folderId # 0
  /\ lock.capturedAt # 0
  /\ ~(t - lock.capturedAt > BOOKMARK_CONTEXT_LOCK_TTL_MS)

\* the lookup without the test of the age
getBookmarkContextLockAnyAge(locks, t) ==
  IF \E k \in DOMAIN locks : locks[k].present /\ locks[k].folderId # 0 /\ locks[k].capturedAt # 0
    THEN locks[CHOOSE k \in DOMAIN locks :
                 /\ locks[k].present /\ locks[k].folderId # 0 /\ locks[k].capturedAt # 0
                 /\ \A j \in 1..(k - 1) :
                      ~(locks[j].present /\ locks[j].folderId # 0 /\ locks[j].capturedAt # 0)]
    ELSE NoContext

getBookmarkContextLock(locks, t) ==
  IF \E k \in DOMAIN locks : LockUsable(locks[k], t)
    THEN Bind(CHOOSE k \in DOMAIN locks :
                /\ LockUsable(locks[k], t)
                /\ \A j \in 1..(k - 1) : ~LockUsable(locks[j], t), LAMBDA k :
           Payload(locks[k].folderId, locks[k].pageUrl,
                   IF locks[k].source # "" THEN locks[k].source ELSE "lock",
                   locks[k].capturedAt, locks[k].routeSource))
    ELSE NoContext

normalizeBookmarkContextValue(raw, page, t) ==
  Bind(captureBookmarkRouteFromPage(page), LAMBDA found :
  Bind(IF raw.source # "" THEN raw.source ELSE "object", LAMBDA source :
    IF ~raw.present
      THEN Payload(found.folderId, found.pageUrl, found.source, t, found.source)
    ELSE IF captureBookmarkRouteFromUrl(raw.pageUrl) # 0
      THEN Payload(captureBookmarkRouteFromUrl(raw.pageUrl), raw.pageUrl, source,
                   raw.capturedAt, source)
    ELSE IF raw.folderId # 0
      THEN Payload(raw.folderId, IF raw.pageUrl # NoUrl THEN raw.pageUrl ELSE page.url,
                   source, raw.capturedAt, source)
    ELSE Payload(found.folderId, found.pageUrl, "fallback", t, found.source)))

\* c: the bookmark state (activeBookmarkContext, locks, page)
resolveRequestBookmarkContext(c, req, t) ==
  Bind(captureBookmarkRouteFromUrl(c.page.url), LAMBDA pageFolder :
  Bind(getBookmarkContextLock(c.locks, t), LAMBDA lock :
  Bind(captureBookmarkRouteFromPage(c.page), LAMBDA fromPage :
  Bind(c.activeBookmarkContext, LAMBDA active :
    IF req.bookmarks /\ extractFolderIdFromBookmarkRequestUrl(req) # 0
      THEN Payload(extractFolderIdFromBookmarkRequestUrl(req), c.page.url, "request-url",
                   t, "request-url")
    ELSE IF req.bookmarks /\ extractFolderIdFromBookmarkRequestBody(req) # 0
      THEN Payload(extractFolderIdFromBookmarkRequestBody(req), c.page.url, "request-body",
                   t, "request-body")
    ELSE IF req.bookmarks /\ pageFolder # 0
      THEN Payload(pageFolder, c.page.url, "page-route", t, "location")
    ELSE IF req.bookmarks /\ lock.present /\ isBookmarksRoute(c.page.url)
      THEN Payload(lock.folderId, IF lock.pageUrl # NoUrl THEN lock.pageUrl ELSE c.page.url,
                   lock.source, t, "active-context-lock")
    ELSE IF /\ req.bookmarks
            /\ active.folderId # 0
            /\ t - active.capturedAt <= BOOKMARK_CONTEXT_BOOKMARKS_ONLY_STALE_MS
      THEN Payload(active.folderId,
                   IF active.pageUrl # NoUrl THEN active.pageUrl ELSE c.page.url,
                   IF active.source # "" THEN active.source ELSE "active-context",
                   t, "active-context")
    ELSE IF req.bookmarks /\ fromPage.folderId # 0
      THEN Payload(fromPage.folderId, fromPage.pageUrl, fromPage.source, t, fromPage.source)
    ELSE normalizeBookmarkContextValue(active, c.page, t)))))

\* setBookmarkContext with setBookmarkContextLock and clearBookmarkContextLock
setBookmarkContext(c, value, t) ==
  Bind(normalizeBookmarkContextValue(value, c.page, t), LAMBDA payload :
    [c EXCEPT !.activeBookmarkContext = payload,
              !.locks =
                IF payload.folderId # 0
                  THEN [k \in 1..4 |->
                          [payload EXCEPT !.source = IF @ # "" THEN @ ELSE "lock",
                                          !.capturedAt = IF @ # 0 THEN @ ELSE t]]
                ELSE IF ~isBookmarksRoute(payload.pageUrl)
                  THEN [k \in 1..4 |-> NoContext]
                ELSE @])

\* the request of a bridge message as buildNormalizedHookMessageRequest
\* leaves it, then the manager's choice of the context it hands on; passed is
\* the context the message carries, NoContext when it carries none
finalizeBookmarkContext(c, req, passed, t) ==
  Bind(normalizeBookmarkContextValue(passed, c.page, t), LAMBDA built :
  Bind(IF ~passed.present
         THEN resolveRequestBookmarkContext(c, req, t)
         ELSE normalizeBookmarkContextValue(built, c.page, t), LAMBDA final :
    [setBookmarkContext(c, final, t) EXCEPT !.final = final]))

NoRequest == [bookmarks |-> FALSE, queryId |-> 0, variablesId |-> 0, bodyId |-> 0]

\* the module state of a fresh page: activeBookmarkContext of source
\* "startup", no lock, no request issued
BookmarksIdle ==
  [activeBookmarkContext |-> Payload(0, NoUrl, "startup", 0, ""),
   locks |-> [k \in 1..4 |-> NoContext],
   page |-> [url |-> HomeUrl, scanId |-> 0],
   bookmarkRequestCounter |-> 0,
   xhr |-> [open |-> FALSE, req |-> NoRequest, context |-> NoContext],
   message |-> [posted |-> FALSE, req |-> NoRequest, context |-> NoContext],
   final |-> NoContext,
   foreign |-> 0,
   issued |-> 0]

\* ======================================================================
\* Intercepted calls: the XHR and fetch wrappers at work
\* ======================================================================
\* A call of the host is an entry of traffic.calls: the origination point,
\* the URL, and how far the real call has come. An XMLHttpRequest object
\* carries what the wrappers wrote on it; an envelope on the wire names the
\* call whose response it carries (of) and the request id it is labelled with;
\* req_id of a call is the id the wrappers made for it (0: none).
OtherUrl == "https://x.com/other"

\* /\/graphql\/|\/api\/1\.1\//
matchesApiPattern(url) ==
  \E i \in DOMAIN pathname(url) :
    /\ i < Len(pathname(url))
    /\ \/ pathname(url)[i] = "graphql"
       \/ i > 1 /\ pathname(url)[i - 1] = "api" /\ pathname(url)[i] = "1.1"

NoXhr ==
  [hooked |-> FALSE, req_url |-> "", req_id |-> 0, req_context |-> NoContext,
   current |-> 0]

TrafficIdle ==
  [calls |-> <<>>, xhrs |-> <<NoXhr>>, wire |-> <<>>, delivered |-> <<>>]

RequestOf(url) == [NoRequest EXCEPT !.bookmarks = isBookmarksApiRequest(url)]

\* posts the payload as it is, without the revision of the sender
postHookMessageUnstamped(wire, payload) ==
  Append(wire, [of |-> payload.of, url |-> payload.url, id |-> payload.id,
                context |-> payload.context,
                body |-> TRUE, requestId |-> TRUE, revision |-> 0])

\* the envelope that goes over the bridge: its request rebuilt by
\* buildNormalizedHookMessageRequest (body a string, a request id, a context
\* object), and __twe_msg_revision_v1 set to HOOK_REVISION
postHookMessage(wire, payload) ==
  Append(wire, [of |-> payload.of, url |-> payload.url, id |-> payload.id,
                context |-> payload.context,
                body |-> TRUE, requestId |-> TRUE, revision |-> HOOK_REVISION])

\* the real open(): a call in flight on the same object is aborted
openBase(c, x, url) ==
  Bind(c.traffic.xhrs[x].current, LAMBDA prev :
  Bind(IF prev # 0 /\ c.traffic.calls[prev].status \in {"opened", "sent"}
         THEN [c EXCEPT !.traffic.calls[prev].status = "aborted"] ELSE c, LAMBDA c1 :
    [c1 EXCEPT !.traffic.calls = Append(@, [point |-> "xhr", url |-> url, status |-> "opened",
                                            req_id |-> 0, req_context |-> NoContext]),
               !.traffic.xhrs[x].current = Len(c1.traffic.calls) + 1]))

\* the listener the open wrapper adds for 'load': it posts the envelope
loadListener(c, x, t) ==
  Bind(c.traffic.xhrs[x], LAMBDA xhr :
    IF xhr.req_url = "" \/ ~matchesApiPattern(xhr.req_url) THEN c
    ELSE
    Bind(IF xhr.req_id # 0 THEN c
         ELSE [c EXCEPT !.bookmarks.bookmarkRequestCounter = @ + 1,
                        !.traffic.xhrs[x].req_id = c.bookmarks.bookmarkRequestCounter + 1],
         LAMBDA c1 :
    Bind(isBookmarksApiRequest(xhr.req_url), LAMBDA bookmarkRequest :
    Bind(IF xhr.req_context.present THEN xhr.req_context
         ELSE IF bookmarkRequest
           THEN resolveRequestBookmarkContext(c1.bookmarks, RequestOf(xhr.req_url), t)
         ELSE NoContext, LAMBDA reqContext :
    Bind(IF bookmarkRequest /\ reqContext.present
           THEN [c1 EXCEPT !.bookmarks = setBookmarkContext(c1.bookmarks, reqContext, t)]
           ELSE c1, LAMBDA c2 :
      [c2 EXCEPT !.traffic.xhrs[x].req_context = reqContext,
                 !.traffic.wire =
                    postHookMessage(@, [of |-> xhr.current, url |-> xhr.req_url,
                                        id |-> c1.traffic.xhrs[x].req_id,
                                        context |-> normalizeBookmarkContextValue(
                                                      reqContext, c2.bookmarks.page, t)])])))))

\* the event the listener of the open wrapper is registered for
loadEventType == "load"

\* the browser fires an event on the XMLHttpRequest object
dispatchEvent(c, x, type, t) ==
  IF c.traffic.xhrs[x].hooked /\ type = loadEventType THEN loadListener(c, x, t) ELSE c

\* XMLHttpRequest.prototype.open as the wrapper
openWrapper(c, x, url, t) ==
  Bind(IF url # "" /\ matchesApiPattern(url)
         THEN Bind(c.bookmarks.bookmarkRequestCounter + 1, LAMBDA id :
              Bind(IF isBookmarksApiRequest(url)
                     THEN resolveRequestBookmarkContext(c.bookmarks, RequestOf(url), t)
                     ELSE NoContext, LAMBDA ctx :
                [c EXCEPT !.bookmarks =
                             IF isBookmarksApiRequest(url)
                               THEN [setBookmarkContext(c.bookmarks, ctx, t)
                                       EXCEPT !.bookmarkRequestCounter = id]
                               ELSE [@ EXCEPT !.bookmarkRequestCounter = id],
                          !.traffic.xhrs[x] = [hooked |-> TRUE, req_url |-> url, req_id |-> id,
                                               req_context |-> ctx, current |-> @.current]]))
         ELSE c, LAMBDA c1 :
  Bind(openBase(c1, x, url), LAMBDA c2 :
    \* the call the request id was made for
    IF url # "" /\ matchesApiPattern(url)
      THEN [c2 EXCEPT !.traffic.calls[Len(c2.traffic.calls)].req_id =
                         c2.traffic.xhrs[x].req_id]
      ELSE c2))

\* XMLHttpRequest.prototype.send as the wrapper, then the real send()
sendWrapper(c, x, t) ==
  Bind(c.traffic.xhrs[x], LAMBDA xhr :
  Bind(IF xhr.req_id # 0 THEN c
       ELSE [c EXCEPT !.bookmarks.bookmarkRequestCounter = @ + 1,
                      !.traffic.xhrs[x].req_id = c.bookmarks.bookmarkRequestCounter + 1,
                      !.traffic.calls[xhr.current].req_id =
                         c.bookmarks.bookmarkRequestCounter + 1],
       LAMBDA c1 :
  Bind(IF xhr.req_url = "" THEN c1
       ELSE IF isBookmarksApiRequest(xhr.req_url)
         THEN Bind(resolveRequestBookmarkContext(c1.bookmarks, RequestOf(xhr.req_url), t),
                   LAMBDA ctx :
                [c1 EXCEPT !.bookmarks = setBookmarkContext(c1.bookmarks, ctx, t),
                           !.traffic.xhrs[x].req_context = ctx])
       ELSE [c1 EXCEPT !.traffic.xhrs[x].req_context = NoContext], LAMBDA c2 :
    dispatchEvent([c2 EXCEPT !.traffic.calls[xhr.current].status = "sent"],
                  x, "loadstart", t))))

\* the fetch wrapper up to the call of the original fetch
fetchWrapperCall(c, url, t) ==
  Bind(c.bookmarks.bookmarkRequestCounter + 1, LAMBDA requestId :
  Bind(IF isBookmarksApiRequest(url)
         THEN resolveRequestBookmarkContext(c.bookmarks, RequestOf(url), t)
         ELSE NoContext, LAMBDA requestContext :
    [c EXCEPT !.bookmarks =
                 IF isBookmarksApiRequest(url)
                   THEN [setBookmarkContext(c.bookmarks, requestContext, t)
                           EXCEPT !.bookmarkRequestCounter = requestId]
                   ELSE [@ EXCEPT !.bookmarkRequestCounter = requestId],
              !.traffic.calls = Append(@, [point |-> "fetch", url |-> url, status |-> "pending",
                                           req_id |-> requestId,
                                           req_context |-> requestContext])]))

\* the fetch wrapper after the await: the promise of the original fetch was
\* fulfilled (ok) or rejected; textual: the content type is absent, JSON or text
fetchWrapperSettled(c, k, ok, textual) ==
  IF ~ok THEN [c EXCEPT !.traffic.calls[k].status = "failed"]
  ELSE IF c.traffic.calls[k].url = "" \/ ~matchesApiPattern(c.traffic.calls[k].url)
         \/ ~textual
    THEN [c EXCEPT !.traffic.calls[k].status = "returned"]
  ELSE [c EXCEPT !.traffic.calls[k].status = "reading"]

\* response.clone().text() settled: its then() posts the envelope when the
\* text is not empty, its catch() logs
fetchCloneText(c, k, ok, empty, t) ==
  IF ~ok THEN [c EXCEPT !.traffic.calls[k].status = "unreadable"]
  ELSE IF empty THEN [c EXCEPT !.traffic.calls[k].status = "read"]
  ELSE Bind(c.traffic.calls[k], LAMBDA call :
         [c EXCEPT !.traffic.calls[k].status = "read",
                   !.traffic.wire =
                      postHookMessage(@, [of |-> k, url |-> call.url, id |-> call.req_id,
                                          context |-> normalizeBookmarkContextValue(
                                                        call.req_context, c.bookmarks.page, t)])])

\* --- bridge messages
\* origin: event.origin; flag: data.__twe_mcp_hook_v1 === true; revision: the
\* message revision (0: none); res: data.res present; method / url: "" when
\* absent; body, requestId, context: the request carries the field
AllowedOrigins == {"https://x.com", "https://twitter.com", "https://mobile.x.com"}

getBridgeMessageRevision(msg) == msg.revision

Verdict(b, v) ==
  [recentResponseSigs |-> b.recentResponseSigs, hookStats |-> b.hookStats,
   dispatched |-> b.dispatched, bookmarks |-> b.bookmarks, verdict |-> v]

\* no endpoint class is exempt from dedupe
isBookmarkApiRequestNever(url) == FALSE

\* const isBookmarkApiRequest = isBookmarksApiRequest(req.url): the
\* deliveries that go past the dedupe block
isBookmarkApiRequest(url) == isBookmarksApiRequest(url)

\* the listener installed by installPageMessageBridge, at time t
pageMessageHandler(b, msg, t) ==
  LET messageRevision == getBridgeMessageRevision(msg)
      isLegacyMessage == messageRevision = 0 \/ messageRevision # HOOK_REVISION
      incomingMethod == IF msg.method # "" THEN msg.method ELSE "GET"
      incomingUrl == msg.url
      hasRequestContext == msg.context
      hasBodyField == msg.body
      hasRequestIdField == msg.requestId
      bridgeRepaired ==
        isLegacyMessage \/ ~hasRequestContext \/ ~hasBodyField \/ ~hasRequestIdField
  IN
  IF msg.origin # "" /\ msg.origin \notin AllowedOrigins THEN Verdict(b, "dropped")
  ELSE IF ~msg.flag THEN Verdict(b, "dropped")
  ELSE IF ~msg.res THEN Verdict(b, "dropped")
  ELSE
  \* nextBookmarkRequestId() for a message without a request id
  Bind([b EXCEPT !.bookmarks.bookmarkRequestCounter = @ + Bump(~hasRequestIdField)],
       LAMBDA b1 :
  IF incomingUrl = "" THEN Verdict(b1, "dropped")
  ELSE
  Bind(finalizeBookmarkContext(b1.bookmarks,
                               [bookmarks |-> isBookmarksApiRequest(incomingUrl),
                                queryId |-> msg.ids.queryId,
                                variablesId |-> msg.ids.variablesId,
                                bodyId |-> IF hasBodyField THEN msg.ids.bodyId ELSE 0],
                               IF hasRequestContext THEN msg.bookmarkContext ELSE NoContext,
                               t), LAMBDA bm :
  Bind(isBookmarksApiRequest(incomingUrl), LAMBDA isBookmarksMessage :
  Bind(extractBookmarksEndpoint(incomingUrl), LAMBDA endpointKey :
  Bind(IF isBookmarksMessage
         THEN getEndpointStats(b.hookStats.endpointStats, endpointKey)
         ELSE b.hookStats.endpointStats, LAMBDA es0 :
  Bind(EndpointIndex(es0, endpointKey), LAMBDA e :
  Bind(IF ~isBookmarksMessage THEN es0
       ELSE [es0 EXCEPT ![e].received = @ + 1,
                        ![e].lastAt = t,
                        ![e].lastStatus = msg.status,
                        ![e].lastUrl = incomingUrl,
                        ![e].legacyShape = @ + Bump(~hasRequestContext),
                        ![e].missingContext = @ + Bump(~hasRequestContext)], LAMBDA es1 :
  Bind([b.hookStats EXCEPT
          !.messagesRepairedAtBridge = @ + Bump(bridgeRepaired),
          !.messagesMissingBody = @ + Bump(~hasBodyField),
          !.messagesLegacyShape = @ + Bump(isLegacyMessage) + Bump(~hasRequestContext),
          !.messagesMissingContext = @ + Bump(~hasRequestContext),
          !.endpointStats = es1], LAMBDA hs1 :
  Bind(toUpperCase(incomingMethod), LAMBDA method :
  Bind(isBookmarkApiRequest(incomingUrl), LAMBDA dedupeExempt :
  Bind(createRequestSignature(method, incomingUrl, msg.status, msg.responseText),
       LAMBDA dedupeKey :
  Bind(MapIndex(b.recentResponseSigs, dedupeKey), LAMBDA prev :
    IF /\ ~dedupeExempt
       /\ prev # 0
       /\ WithinDedupeWindow(b.recentResponseSigs[prev].at, t)
      THEN Verdict([b EXCEPT !.hookStats =
                      [hs1 EXCEPT !.responsesSkippedDuplicate = @ + 1],
                        !.bookmarks = bm], "duplicate")
    ELSE
    Bind(IF dedupeExempt THEN b.recentResponseSigs
         ELSE Bind(MapSet(b.recentResponseSigs, dedupeKey, t), LAMBDA set :
                cleanupSignatureCache(set, t)), LAMBDA sigs :
    Bind(IF ~isBookmarksMessage THEN es1 ELSE [es1 EXCEPT ![e].processed = @ + 1],
         LAMBDA es2 :
    Bind([hs1 EXCEPT
            !.responsesProcessed = @ + 1,
            !.endpointStats = es2,
            !.messagesTotal = @ + 1,
            !.lastMessageAt = t,
            !.lastUrl = incomingUrl,
            !.lastAt = t,
            !.xhrMessages = @ + Bump(toUpperCase(incomingMethod) = "GET"),
            !.fetchMessages = @ + Bump(toUpperCase(incomingMethod) # "GET")], LAMBDA hs2 :
      Verdict([b EXCEPT !.hookStats = hs2,
                        !.recentResponseSigs = sigs,
                        !.bookmarks = bm,
                        !.dispatched = @ + 1], "processed"))))))))))))))))

\* ======================================================================
\* useCaptureCount: the refreshes of one subscription
\* ======================================================================
\* The closure of the effect: disposed, refreshInFlight, refreshQueued; the
\* interval and the two listeners it installed; count, the state of the hook.
\* running: the calls of refresh() that have not settled; requests: the calls
\* of scheduleRefresh made by the effect, the timer and the listeners;
\* servedUpTo: the value of requests when the last refresh started; cleaned:
\* the cleanup of the effect has run; startedLate / setLate: a refresh
\* started, or setCount was called, after the cleanup.
ExtName == "ext"
WatchedKeys == {"__twe_capture_counts_v1", "__twe_capture_counts_v2",
                "__twe_active_db_name_v1", "__twe_db_mutation_v1"}

CaptureIdle ==
  [disposed |-> FALSE, refreshInFlight |-> FALSE, refreshQueued |-> FALSE,
   interval |-> FALSE, listening |-> FALSE, count |-> 0,
   running |-> 0, requests |-> 0, started |-> 0, servedUpTo |-> 0,
   cleaned |-> FALSE, startedLate |-> FALSE, setLate |-> FALSE]

\* refresh() up to its await: getCaptureCountAcrossKnownDatabases is under way
refresh(c) ==
  [c EXCEPT !.running = @ + 1,
            !.started = @ + 1,
            !.servedUpTo = c.requests,
            !.startedLate = @ \/ c.cleaned]

\* starts a refresh whether or not one is in flight
scheduleRefreshNotCoalesced(c) ==
  IF c.disposed THEN c
  ELSE refresh([c EXCEPT !.refreshInFlight = TRUE])

scheduleRefresh(c) ==
  IF c.disposed THEN c
  ELSE IF c.refreshInFlight THEN [c EXCEPT !.refreshQueued = TRUE]
  ELSE refresh([c EXCEPT !.refreshInFlight = TRUE])

\* the awaited promise settles: the rest of refresh() (ok: it was fulfilled,
\* with next) and the finally block of the caller in scheduleRefresh
refreshSettled(c, ok, next) ==
  Bind([c EXCEPT !.running = @ - 1,
                 !.count = IF ok /\ ~c.disposed THEN next ELSE @,
                 !.setLate = @ \/ (ok /\ ~c.disposed /\ c.cleaned),
                 !.refreshInFlight = FALSE], LAMBDA c1 :
    IF c1.refreshQueued THEN scheduleRefresh([c1 EXCEPT !.refreshQueued = FALSE])
    ELSE c1)

\* a call of scheduleRefresh from outside the closure's own finally block
requestRefresh(c) == scheduleRefresh([c EXCEPT !.requests = @ + 1])

\* key: event.key, "" when it is null
onStorage(c, key) ==
  IF key = "" THEN c
  ELSE IF key \notin WatchedKeys THEN c
  ELSE requestRefresh(c)

\* targetExtension: detail.extension, "" when there is none
onCaptureCountEvent(c, targetExtension) ==
  IF targetExtension # "" /\ targetExtension # ExtName THEN c
  ELSE requestRefresh(c)

\* the body of the effect
useCaptureCountEffect(c) ==
  [requestRefresh(c) EXCEPT !.interval = TRUE, !.listening = TRUE]

\* the function the effect returns
useCaptureCountCleanup(c) ==
  [c EXCEPT !.disposed = TRUE, !.interval = FALSE, !.listening = FALSE, !.cleaned = TRUE]

\* the bridge before any message
NoDelivery ==
  [verdict |-> "none", exempt |-> FALSE, at |-> 0, prevDispatchAt |-> -1, prevSeenAt |-> -1,
   skipped |-> 0, processed |-> 0, dispatched |-> 0, calls |-> <<>>]

BridgeIdle ==
  /\ now = 0
  /\ recentResponseSigs = <<>>
  /\ hookStats = createHookStats
  /\ dispatched = 0
  /\ lastDispatchAt = <<>>
  /\ lastSeenAt = <<>>
  /\ lastDelivery = NoDelivery
  /\ bookmarks = BookmarksIdle
  /\ traffic = TrafficIdle
  /\ capture = CaptureIdle

\* ======================================================================
\* Hook installer, safe mode, repair loop, singleton: the state machine
\* ======================================================================
\* what the page realm does to an operation: the page global throws on access
\* (a dead or restricted realm), or the host rejects a patch (defineOn fails)
Calm == [accessThrows |-> FALSE, defineOk |-> TRUE]
Envs == {Calm,
         [accessThrows |-> FALSE, defineOk |-> FALSE],
         [accessThrows |-> TRUE, defineOk |-> TRUE]}

\* failed: the install call ended on an exception or an unavailable point;
\* again: the step before was the same install call (kind, force, manager);
\* trail: how far the run has followed install -> uninstallHooks -> install,
\* each install without force and defining its wrappers ("x": it left that path)
NoOp == [op |-> "none", mgr |-> 0, kind |-> "", force |-> FALSE, defined |-> {},
         failed |-> FALSE, again |-> FALSE, trail |-> "x", calls |-> <<>>]

KindPoints(kind) ==
  IF kind = "xhr" THEN {"open", "send"} ELSE IF kind = "fetch" THEN {"fetch"} ELSE {}

NextTrail(rec) ==
  IF rec.op = "uninstall" /\ lastOp.trail = "i" THEN "iu"
  ELSE IF /\ rec.op = "install" /\ ~rec.force /\ lastOp.trail = "iu"
          /\ rec.defined = KindPoints(rec.kind)
    THEN "iui"
  ELSE "x"

Op(rec) ==
  [rec EXCEPT !.again = \/ /\ rec.op = "install" /\ lastOp.op = "install"
                           /\ lastOp.kind = rec.kind /\ lastOp.force = rec.force
                           /\ lastOp.mgr = rec.mgr
                        \/ /\ rec.op = "dispose" /\ lastOp.op = "dispose"
                           /\ lastOp.mgr = rec.mgr,
              !.trail = NextTrail(rec)]
NoCall == [point |-> "none", outcome |-> "none", viaHook |-> FALSE, wraps |-> 0]

World ==
  [fns |-> fns, proto |-> proto, pageAny |-> pageAny, localStorage |-> localStorage,
   options |-> options, mgrs |-> mgrs, extensionManager |-> extensionManager,
   globalManagerKey |-> globalManagerKey,
   threw |-> FALSE, failed |-> FALSE, defined |-> {}, ran |-> FALSE, calls |-> <<>>]

Holds(w) ==
  /\ fns = w.fns
  /\ proto = w.proto
  /\ pageAny = w.pageAny
  /\ localStorage = w.localStorage
  /\ options = w.options
  /\ mgrs = w.mgrs
  /\ extensionManager = w.extensionManager
  /\ globalManagerKey = w.globalManagerKey

BecomesCollected(w) ==
  /\ \A p \in Points : Len(w.fns[p]) <= MaxFns
  /\ Len(w.mgrs) <= MaxManagers
  /\ fns' = w.fns
  /\ proto' = w.proto
  /\ pageAny' = w.pageAny
  /\ localStorage' = w.localStorage
  /\ options' = w.options
  /\ mgrs' = w.mgrs
  /\ extensionManager' = w.extensionManager
  /\ globalManagerKey' = w.globalManagerKey
  /\ lastCall' = NoCall
  /\ UNCHANGED bridgeVars

Becomes(w) == \E c \in {Collect(w)} : BecomesCollected(c)

Live(i) == i \in 1..Len(mgrs) /\ mgrs[i].ours /\ ~mgrs[i].disposed

\* the operator's toggles before the first start
OperatorOptions ==
  {[safeMode |-> FALSE, hookMode |-> h, repairMode |-> "watchdog"] : h \in HookModes}
  \cup {[safeMode |-> FALSE, hookMode |-> "both", repairMode |-> "off"],
        [safeMode |-> TRUE, hookMode |-> "both", repairMode |-> "watchdog"]}

Unpatched(opt) ==
  [fns |-> [p \in Points |-> <<NativeFn(p)>>],
   proto |-> [open |-> 1, send |-> 1, ORIG_XHR_OPEN_KEY |-> 0, ORIG_XHR_SEND_KEY |-> 0],
   pageAny |-> [fetch |-> 1, ORIG_FETCH_KEY |-> 0, HOOK_RUNTIME_KEY |-> NoRuntime,
                RUNTIME_MODES_KEY |-> [present |-> FALSE, safeMode |-> FALSE,
                                       hookMode |-> "", repairMode |-> ""],
                bookmark_context_listeners |-> FALSE,
                bookmark_context_click |-> FALSE,
                bookmark_context_interval |-> FALSE,
                bookmark_context_mutation |-> FALSE],
   localStorage |-> [safeMode |-> "", hookMode |-> "", repairMode |-> ""],
   options |-> opt,
   mgrs |-> <<>>,
   extensionManager |-> 0,
   globalManagerKey |-> 0,
   threw |-> FALSE, failed |-> FALSE, defined |-> {}, ran |-> FALSE, calls |-> <<>>]

\* the page before the script has run
PageInit ==
  /\ \E opt \in OperatorOptions : Holds(Unpatched(opt))
  /\ BridgeIdle
  /\ hostMoves = 0
  /\ lastOp = NoOp
  /\ lastCall = NoCall

\* the state after the first getExtensionManager() over an unpatched page
HookInit ==
  /\ \E opt \in OperatorOptions, env \in Envs :
       \E page \in {Unpatched(opt)} :
       \E w \in {getExtensionManager(page, env)} :
       \E c \in {Collect(w)} :
       /\ Holds(c)
       /\ lastOp = [NoOp EXCEPT !.op = "getExtensionManager", !.mgr = 1,
                                !.defined = w.defined,
                                !.trail = IF w.defined # {} THEN "i" ELSE "x"]
  /\ BridgeIdle
  /\ hostMoves = 0
  /\ lastCall = NoCall

GetExtensionManager ==
  \E env \in Envs :
    \E cur \in {World} :
    \E w \in {getExtensionManager(cur, env)} :
    /\ Becomes(w)
    /\ lastOp' = Op([NoOp EXCEPT !.op = "getExtensionManager", !.mgr = w.extensionManager,
                              !.defined = w.defined])
    /\ UNCHANGED hostMoves

\* the script is evaluated again: a new module instance of index.ts
ModuleReload ==
  /\ extensionManager # 0
  /\ extensionManager' = 0
  /\ lastOp' = Op([NoOp EXCEPT !.op = "reload"])
  /\ lastCall' = NoCall
  /\ UNCHANGED <<fns, proto, pageAny, localStorage, options, mgrs, globalManagerKey, hostMoves>>
  /\ UNCHANGED bridgeVars

\* install(originationKind, force) as an operation of its own; the constructor
\* and the repair run call the same operators
InstallHttpHooks ==
  \E i \in 1..Len(mgrs), force \in BOOLEAN, env \in Envs :
    /\ Live(i)
    /\ \E cur \in {World} :
       \E w \in {installHttpHooks(cur, i, force, env)} :
         /\ Becomes(w)
         /\ lastOp' = Op([NoOp EXCEPT !.op = "install", !.mgr = i, !.kind = "xhr",
                                      !.force = force, !.defined = w.defined,
                                      !.failed = w.failed])
         /\ UNCHANGED hostMoves

InstallFetchHooks ==
  \E i \in 1..Len(mgrs), force \in BOOLEAN, env \in Envs :
    /\ Live(i)
    /\ \E cur \in {World} :
       \E w \in {installFetchHooks(cur, i, force, env)} :
         /\ Becomes(w)
         /\ lastOp' = Op([NoOp EXCEPT !.op = "install", !.mgr = i, !.kind = "fetch",
                                      !.force = force, !.defined = w.defined,
                                      !.failed = w.failed])
         /\ UNCHANGED hostMoves

\* the repair timer fires
RepairTimer ==
  \E i \in 1..Len(mgrs), env \in Envs :
    /\ mgrs[i].pendingTimers > 0
    /\ \E cur \in {World} :
       \E w \in {repair(cur, i, env)} :
         /\ Becomes(w)
         /\ lastOp' = Op([NoOp EXCEPT !.op = IF w.ran THEN "repair" ELSE "repair-skipped",
                                      !.mgr = i, !.force = TRUE, !.defined = w.defined,
                                      !.calls = w.calls])
         /\ UNCHANGED hostMoves

UninstallHooks ==
  \E i \in 1..Len(mgrs) :
    /\ mgrs[i].ours
    /\ \E cur \in {World} : \E w \in {uninstallHooks(cur, i, Calm)} : Becomes(w)
    /\ lastOp' = Op([NoOp EXCEPT !.op = "uninstall", !.mgr = i])
    /\ UNCHANGED hostMoves

\* the published entry point __twe_runtime_v1.uninstall()
RuntimeUninstall ==
  /\ pageAny.HOOK_RUNTIME_KEY.present
  /\ \E cur \in {World} : \E w \in {RuntimeUninstallCall(cur, Calm)} : Becomes(w)
  /\ lastOp' = Op([NoOp EXCEPT !.op = "runtime-uninstall", !.mgr = pageAny.HOOK_RUNTIME_KEY.owner])
  /\ UNCHANGED hostMoves

Dispose ==
  \E i \in 1..Len(mgrs) :
    /\ mgrs[i].ours
    /\ \E cur \in {World} : \E w \in {dispose(cur, i, Calm)} :
         /\ Becomes(w)
         /\ lastOp' = Op([NoOp EXCEPT !.op = "dispose", !.mgr = i, !.failed = w.threw,
                                      !.calls = w.calls])
    /\ UNCHANGED hostMoves

\* --- the host page
\* the origination points a live manager hooks: what the host does to the
\* others never meets this system
PointKind(point) == IF point = "fetch" THEN "fetch" ELSE "xhr"

Hooked(point) ==
  \E i \in 1..Len(mgrs) : Live(i) /\ isHookModeEnabled(mgrs[i], PointKind(point))

HostSet(point, id) ==
  IF point = "fetch"
    THEN pageAny' = [pageAny EXCEPT !.fetch = id] /\ UNCHANGED proto
    ELSE proto' = [proto EXCEPT ![point] = id] /\ UNCHANGED pageAny

\* an unrelated patch, or a wrapper left by an older revision of this script,
\* replaces the function at an origination point and calls through to it
HostPatch ==
  \E point \in Points, style \in {"foreign", "stale", "stale-nested"} :
    LET cur == PointFn(World, point)
        id == Len(fns[point]) + 1
        fn == IF style = "foreign" THEN ForeignFn(point, cur)
              ELSE HookFn(point, HOOK_REVISION - 1, cur,
                          IF style = "stale-nested" THEN cur ELSE 0)
    IN /\ cur # 0
       /\ Hooked(point)
       /\ id <= MaxFns
       /\ hostMoves < MaxHostMoves
       /\ hostMoves' = hostMoves + 1
       /\ fns' = [fns EXCEPT ![point] = Append(@, fn)]
       /\ HostSet(point, id)
       /\ lastOp' = Op([NoOp EXCEPT !.op = "host-patch", !.kind = point])
       /\ lastCall' = NoCall
       /\ UNCHANGED <<localStorage, options, mgrs, extensionManager, globalManagerKey>>
       /\ UNCHANGED bridgeVars

\* the origination point stops holding a function
HostBreak ==
  \E point \in Points :
    /\ PointFn(World, point) # 0
    /\ Hooked(point)
    /\ hostMoves < MaxHostMoves
    /\ hostMoves' = hostMoves + 1
    /\ HostSet(point, 0)
    /\ lastOp' = Op([NoOp EXCEPT !.op = "host-break", !.kind = point])
    /\ lastCall' = NoCall
    /\ UNCHANGED <<fns, localStorage, options, mgrs, extensionManager, globalManagerKey>>
    /\ UNCHANGED bridgeVars

\* an object left under the global manager key by another build of the
\* script: exactly one of signature, revision, methods, disposed flag is off
StalePublish ==
  \E sig \in BOOLEAN, revision \in {INDEX_EXTENSION_MANAGER_REVISION - 1,
                                       INDEX_EXTENSION_MANAGER_REVISION},
     shape \in BOOLEAN, disposedFlag \in BOOLEAN :
    /\ Len(mgrs) < MaxManagers
    /\ Cardinality({b \in {<<1, sig>>, <<2, revision = INDEX_EXTENSION_MANAGER_REVISION>>,
                           <<3, shape>>, <<4, ~disposedFlag>>} : ~b[2]}) = 1
    /\ mgrs' = Append(mgrs, [NewManager(World) EXCEPT
                               !.ours = FALSE, !.signatureOk = sig, !.revision = revision,
                               !.shape = shape, !.disposed = disposedFlag])
    /\ globalManagerKey' = Len(mgrs) + 1
    /\ lastOp' = Op([NoOp EXCEPT !.op = "stale-publish", !.mgr = Len(mgrs) + 1])
    /\ lastCall' = NoCall
    /\ UNCHANGED <<fns, proto, pageAny, localStorage, options, extensionManager, hostMoves>>
    /\ UNCHANGED bridgeVars

\* the page calls XMLHttpRequest.prototype.open / send or fetch
HostCall ==
  \E point \in Points :
    \E cur \in {World} :
    \E f \in {PointFn(cur, point)} :
    /\ f # 0
    /\ lastCall' = [point |-> point,
                    outcome |-> Invoke(cur, point, f, MaxFns + 1),
                    viaHook |-> hasHookVersion(fns[point], f, point),
                    wraps |-> WrapCount(cur, point, f, MaxFns + 1)]
    /\ lastOp' = Op([NoOp EXCEPT !.op = "call", !.kind = point])
    /\ UNCHANGED <<fns, proto, pageAny, localStorage, options, mgrs, extensionManager,
                   globalManagerKey, hostMoves>>
    /\ UNCHANGED bridgeVars

\* the running manager: repair timer, uninstall entry points, dispose, and the
\* host page patching, breaking and calling the origination points
HookNext ==
  \/ RepairTimer
  \/ UninstallHooks
  \/ RuntimeUninstall
  \/ Dispose
  \/ HostPatch
  \/ HostBreak
  \/ HostCall

SpecHooks == HookInit /\ [][HookNext]_vars

\* --- the repair loop started again and again
\* a further call of startHookRepairLoop() on a live manager
StartHookRepairLoop ==
  \E i \in 1..Len(mgrs) :
    /\ mgrs[i].ours
    /\ \E cur \in {World} : \E w \in {startHookRepairLoop(cur, i)} : Becomes(w)
    /\ lastOp' = Op([NoOp EXCEPT !.op = "startHookRepairLoop", !.mgr = i])
    /\ UNCHANGED hostMoves

RepairNext ==
  \/ StartHookRepairLoop
  \/ RepairTimer
  \/ UninstallHooks
  \/ Dispose
  \/ HostBreak

SpecRepair == HookInit /\ [][RepairNext]_vars

\* --- the repair loop against the host, with timers that fire: a pending
\* timeout of the page's event loop is eventually run
RepairLiveNext ==
  \/ RepairTimer
  \/ RuntimeUninstall
  \/ HostPatch
  \/ Dispose

SpecRepairLive == HookInit /\ [][RepairLiveNext]_vars /\ WF_vars(RepairTimer)

\* the install contract: install(kind, force) and uninstallHooks() called
\* directly, the host page patching the origination points
InstallNext ==
  \/ InstallHttpHooks
  \/ InstallFetchHooks
  \/ UninstallHooks
  \/ HostPatch

\* the repair mode plays no part in direct install calls
InstallInit == HookInit /\ options.repairMode = "watchdog"

SpecInstall == InstallInit /\ [][InstallNext]_vars

\* safe mode: the repair timer and direct install, uninstall and dispose calls
\* on a page whose global may throw and whose origination points may vanish
SafeModeNext ==
  \/ RepairTimer
  \/ InstallHttpHooks
  \/ InstallFetchHooks
  \/ UninstallHooks
  \/ Dispose
  \/ HostBreak

SpecSafeMode == HookInit /\ [][SafeModeNext]_vars

SingletonNext ==
  \/ GetExtensionManager
  \/ ModuleReload
  \/ StalePublish
  \/ Dispose
  \/ RepairTimer

SpecSingleton == PageInit /\ [][SingletonNext]_vars

\* --- construction over a page that lacks origination points
\* before the script runs the page has no function at an origination point
HostLacks ==
  \E point \in Points :
    /\ Len(mgrs) = 0
    /\ PointFn(World, point) # 0
    /\ hostMoves < MaxHostMoves
    /\ hostMoves' = hostMoves + 1
    /\ HostSet(point, 0)
    /\ lastOp' = Op([NoOp EXCEPT !.op = "host-lacks", !.kind = point])
    /\ lastCall' = NoCall
    /\ UNCHANGED <<fns, localStorage, options, mgrs, extensionManager, globalManagerKey>>
    /\ UNCHANGED bridgeVars

\* another build of the script left its runtime object under HOOK_RUNTIME_KEY:
\* it has an uninstall() entry point, and its rev or its signature is not the
\* one of this build; its uninstall() puts the stashed originals back
StaleRuntime ==
  \E rev \in {HOOK_REVISION - 1, HOOK_REVISION}, sig \in BOOLEAN :
    /\ Len(mgrs) = 0
    /\ ~pageAny.HOOK_RUNTIME_KEY.present
    /\ rev # HOOK_REVISION \/ ~sig
    /\ pageAny' = [pageAny EXCEPT !.HOOK_RUNTIME_KEY =
                      [present |-> TRUE, rev |-> rev, signatureOk |-> sig, owner |-> 0]]
    /\ lastOp' = Op([NoOp EXCEPT !.op = "stale-runtime"])
    /\ lastCall' = NoCall
    /\ UNCHANGED <<fns, proto, localStorage, options, mgrs, extensionManager,
                   globalManagerKey, hostMoves>>
    /\ UNCHANGED bridgeVars

ConstructNext ==
  \/ HostLacks
  \/ StaleRuntime
  \/ GetExtensionManager
  \/ RepairTimer
  \/ Dispose

SpecConstruct == PageInit /\ [][ConstructNext]_vars

\* ======================================================================
\* Page-message bridge: the state machine
\* ======================================================================
MaxDeliveries == 3
MaxNow == 3900
MaxBurst == 502
BurstBatch == 167

\* time passes in steps of half a dedupe window
TickSteps == {1300}

BaseMsg ==
  [origin |-> "https://x.com", flag |-> TRUE, revision |-> HOOK_REVISION, res |-> TRUE,
   method |-> "GET", url |-> TimelineUrl, status |-> 200,
   responseText |-> <<123, 125>>,   \* "{}"; <<91, 93>> is "[]"
   body |-> TRUE, requestId |-> TRUE, context |-> TRUE,
   ids |-> [queryId |-> 0, variablesId |-> 0, bodyId |-> 0],
   bookmarkContext |-> Payload(0, HomeUrl, "location", 0, "location")]

\* what the wrappers of this revision send, variations of it that older
\* senders produce, and messages that are not bridge messages at all
Messages ==
  {BaseMsg,
   [BaseMsg EXCEPT !.method = "get"],
   [BaseMsg EXCEPT !.method = "POST"],
   [BaseMsg EXCEPT !.method = ""],
   [BaseMsg EXCEPT !.responseText = <<91, 93>>],
   [BaseMsg EXCEPT !.status = 304],
   [BaseMsg EXCEPT !.url = BookmarksUrl],
   [BaseMsg EXCEPT !.revision = 0],
   [BaseMsg EXCEPT !.revision = HOOK_REVISION - 1],
   [BaseMsg EXCEPT !.body = FALSE],
   [BaseMsg EXCEPT !.requestId = FALSE],
   [BaseMsg EXCEPT !.context = FALSE],
   [BaseMsg EXCEPT !.revision = 0, !.context = FALSE],
   [BaseMsg EXCEPT !.origin = ""],
   [BaseMsg EXCEPT !.origin = "https://evil.example"],
   [BaseMsg EXCEPT !.flag = FALSE],
   [BaseMsg EXCEPT !.res = FALSE],
   [BaseMsg EXCEPT !.url = ""],
   [BaseMsg EXCEPT !.url = "", !.requestId = FALSE]}

Bridge == [recentResponseSigs |-> recentResponseSigs, hookStats |-> hookStats,
           dispatched |-> dispatched, bookmarks |-> bookmarks]

At(f, k) == IF k \in DOMAIN f THEN f[k] ELSE -1

Put(f, k, v) == [x \in DOMAIN f \cup {k} |-> IF x = k THEN v ELSE f[x]]

\* a message event reaches the listener of the manager of the bridge; a
\* message that is dispatched goes through runInterceptors
ReceiveOn(msg) ==
  /\ mgrs[1].pageMessageHandler
  /\ \E cur \in {Bridge} :
     \E b \in {pageMessageHandler(cur, msg, now)} :
     \E sig \in {createRequestSignature(IF msg.method # "" THEN msg.method ELSE "GET",
                                        msg.url, msg.status, msg.responseText)} :
        /\ recentResponseSigs' = b.recentResponseSigs
        /\ hookStats' = b.hookStats
        /\ dispatched' = b.dispatched
        /\ bookmarks' = b.bookmarks
        /\ lastDispatchAt' = IF b.verdict = "processed" THEN Put(lastDispatchAt, sig, now)
                             ELSE lastDispatchAt
        /\ lastSeenAt' = IF b.verdict \in {"processed", "duplicate"} THEN Put(lastSeenAt, sig, now)
                         ELSE lastSeenAt
        /\ lastDelivery' = [verdict |-> b.verdict,
                            exempt |-> isBookmarksApiRequest(msg.url),
                            at |-> now,
                            prevDispatchAt |-> At(lastDispatchAt, sig),
                            prevSeenAt |-> At(lastSeenAt, sig),
                            skipped |-> b.hookStats.responsesSkippedDuplicate
                                          - hookStats.responsesSkippedDuplicate,
                            processed |-> b.hookStats.responsesProcessed
                                            - hookStats.responsesProcessed,
                            dispatched |-> b.dispatched - dispatched,
                            calls |-> IF b.verdict = "processed"
                                        THEN runInterceptors(mgrs[1].extensions)
                                        ELSE <<>>]
        /\ UNCHANGED <<now, hookVars, capture>>

\* a message that no wrapper call of the model stands behind
Receive(msg) == ReceiveOn(msg) /\ UNCHANGED traffic

Deliver ==
  \E msg \in Messages :
    /\ hookStats.responsesProcessed + hookStats.responsesSkippedDuplicate < MaxDeliveries
    /\ bookmarks.bookmarkRequestCounter < MaxDeliveries
    /\ Receive(msg)

Tick ==
  \E d \in TickSteps :
    /\ now + d <= MaxNow
    /\ now' = now + d
    /\ lastDelivery' = NoDelivery
    /\ UNCHANGED <<recentResponseSigs, hookStats, dispatched, lastDispatchAt, lastSeenAt,
                   bookmarks, traffic, capture, hookVars>>

\* the manager of the bridge: the one constructed over an unpatched page with
\* the default options
BridgeInit ==
  /\ \E page \in {Unpatched([safeMode |-> FALSE, hookMode |-> "both",
                               repairMode |-> "watchdog"])} :
     \E w \in {getExtensionManager(page, Calm)} :
     \E c \in {Collect(w)} : Holds(c)
  /\ hostMoves = 0
  /\ lastOp = [NoOp EXCEPT !.op = "getExtensionManager", !.mgr = 1]
  /\ lastCall = NoCall
  /\ BridgeIdle

BridgeNext ==
  \/ Deliver
  \/ Tick

SpecBridge == BridgeInit /\ [][BridgeNext]_vars

\* --- a burst of responses that all differ: the k-th carries the decimal
\* digits of k as its body
RECURSIVE Decimal(_)
Decimal(k) == IF k < 10 THEN <<48 + k>> ELSE Append(Decimal(k \div 10), 48 + (k % 10))

BurstDeliver ==
  /\ dispatched < MaxBurst
  /\ Receive([BaseMsg EXCEPT !.responseText = Decimal(dispatched)])

\* the burst pauses for longer than the dedupe window
BurstPause ==
  /\ dispatched > 0
  /\ dispatched % BurstBatch = 0
  /\ lastDelivery.verdict # "none"
  /\ now + RESPONSE_DEDUPE_WINDOW_MS + 1 <= MaxNow
  /\ now' = now + RESPONSE_DEDUPE_WINDOW_MS + 1
  /\ lastDelivery' = NoDelivery
  /\ UNCHANGED <<recentResponseSigs, hookStats, dispatched, lastDispatchAt, lastSeenAt,
                 bookmarks, traffic, capture, hookVars>>

BurstNext ==
  \/ BurstDeliver
  \/ BurstPause

SpecBurst == BridgeInit /\ [][BurstNext]_vars

\* --- a burst with repeats: at the end of a batch the first message of the
\* burst arrives again
MaxRepeats == 1

BurstRepeat ==
  /\ dispatched > 0
  /\ dispatched % BurstBatch = 0
  /\ dispatched < MaxBurst
  /\ hookStats.responsesSkippedDuplicate < MaxRepeats
  /\ Receive([BaseMsg EXCEPT !.responseText = Decimal(0)])

EvictNext ==
  \/ BurstDeliver
  \/ BurstRepeat
  \/ BurstPause

SpecEvict == BridgeInit /\ [][EvictNext]_vars

\* ======================================================================
\* Extension registry: the state machine
\* ======================================================================
MaxAdds == 2
MaxSignal == 4
MaxDispatches == 1

\* the consumer classes handed to add(): the base class is not part of the
\* manager, so what an instance is and does comes from the environment
Ctors ==
  {[name |-> n, enabled |-> e, intercept |-> "fn", setupThrows |-> FALSE,
    disposeThrows |-> FALSE, ctorThrows |-> FALSE] : n \in {"a", "b"}, e \in BOOLEAN}
  \cup {[name |-> "a", enabled |-> TRUE, intercept |-> i, setupThrows |-> FALSE,
         disposeThrows |-> FALSE, ctorThrows |-> FALSE] : i \in {"none", "throws", "fn-throws"}}
  \cup {[name |-> "b", enabled |-> FALSE, intercept |-> "fn-throws", setupThrows |-> t,
         disposeThrows |-> ~t, ctorThrows |-> FALSE] : t \in BOOLEAN}
  \cup {[name |-> "b", enabled |-> TRUE, intercept |-> "fn", setupThrows |-> FALSE,
         disposeThrows |-> TRUE, ctorThrows |-> FALSE],
        [name |-> "b", enabled |-> FALSE, intercept |-> "fn", setupThrows |-> FALSE,
         disposeThrows |-> FALSE, ctorThrows |-> TRUE]}

ExtensionNames == {"a", "b", "c"}

RegistryStep(w, rec) ==
  /\ Becomes(w)
  /\ lastOp' = Op([rec EXCEPT !.mgr = 1, !.calls = w.calls])
  /\ UNCHANGED hostMoves

Add ==
  \E ctor \in Ctors :
    /\ mgrs[1].made < MaxAdds
    /\ \E cur \in {World} : \E w \in {add(cur, 1, ctor)} :
         RegistryStep(w, [NoOp EXCEPT !.op = "add", !.kind = ctor.name,
                                      !.failed = ctor.ctorThrows])

Enable ==
  \E name \in ExtensionNames :
    /\ mgrs[1].signal < MaxSignal
    /\ \E cur \in {World} : \E w \in {enable(cur, 1, name)} :
         RegistryStep(w, [NoOp EXCEPT !.op = "enable", !.kind = name])

Disable ==
  \E name \in ExtensionNames :
    /\ mgrs[1].signal < MaxSignal
    /\ \E cur \in {World} : \E w \in {disable(cur, 1, name)} :
         RegistryStep(w, [NoOp EXCEPT !.op = "disable", !.kind = name])

Start ==
  /\ mgrs[1].signal + Len(mgrs[1].extensions) <= MaxSignal
  /\ \E cur \in {World} : \E w \in {start(cur, 1)} :
       RegistryStep(w, [NoOp EXCEPT !.op = "start"])

DisposeManager ==
  \E cur \in {World} : \E w \in {dispose(cur, 1, Calm)} :
    RegistryStep(w, [NoOp EXCEPT !.op = "dispose", !.failed = w.threw])

\* a response of the page reaches the bridge
Dispatch ==
  /\ hookStats.responsesProcessed + hookStats.responsesSkippedDuplicate < MaxDispatches
  /\ \E msg \in {BaseMsg, [BaseMsg EXCEPT !.url = BookmarksUrl]} : Receive(msg)

RegistryNext ==
  \/ Add
  \/ Enable
  \/ Disable
  \/ Start
  \/ DisposeManager
  \/ Dispatch

SpecRegistry == BridgeInit /\ [][RegistryNext]_vars

\* ======================================================================
\* Bookmark context: the state machine
\* ======================================================================
MaxForeign == 1
MaxRequests == 2

\* the instants of the clock: the first, then either side of the TTL of a
\* lock captured at the first
Instants ==
  <<1000, 1000 + BOOKMARK_CONTEXT_LOCK_TTL_MS, 1000 + BOOKMARK_CONTEXT_LOCK_TTL_MS + 1>>

Pages ==
  {[url |-> u, scanId |-> 0] : u \in {HomeUrl, BookmarksRootUrl, FolderUrl(999)}}
  \cup {[url |-> BookmarksRootUrl, scanId |-> 444]}

Requests ==
  {NoRequest}
  \cup {[bookmarks |-> TRUE, queryId |-> q, variablesId |-> 0, bodyId |-> 0] :
          q \in {0, 555}}
  \cup {[bookmarks |-> TRUE, queryId |-> 0, variablesId |-> 556, bodyId |-> 0],
        [bookmarks |-> TRUE, queryId |-> 0, variablesId |-> 0, bodyId |-> 666]}

\* calls: for a send, the lock copies the resolver found and what
\* getBookmarkContextLock made of them
ContextStep(c, op, calls) ==
  /\ bookmarks' = c
  /\ lastOp' = [NoOp EXCEPT !.op = op, !.calls = calls]
  /\ UNCHANGED <<fns, proto, pageAny, localStorage, options, mgrs, extensionManager,
                 globalManagerKey, hostMoves, lastCall>>
  /\ UNCHANGED <<now, recentResponseSigs, hookStats, dispatched, lastDispatchAt,
                 lastSeenAt, lastDelivery, traffic, capture>>

\* the page navigates, or its tabs and state change
Navigate ==
  \E page \in Pages :
    /\ page # bookmarks.page
    /\ ContextStep([bookmarks EXCEPT !.page = page], "navigate", <<>>)

Advance ==
  \E k \in 1..(Len(Instants) - 1) :
    /\ now = Instants[k]
    /\ now' = Instants[k + 1]
    /\ lastOp' = [NoOp EXCEPT !.op = "advance"]
    /\ UNCHANGED <<fns, proto, pageAny, localStorage, options, mgrs, extensionManager,
                   globalManagerKey, hostMoves, lastCall>>
    /\ UNCHANGED <<recentResponseSigs, hookStats, dispatched, lastDispatchAt,
                   lastSeenAt, lastDelivery, bookmarks, traffic, capture>>

\* another instance of the script in the page writes the copy of the lock
\* under the key of window
ForeignLock ==
  \E k \in {3} :
    /\ bookmarks.foreign < MaxForeign
    /\ ContextStep([bookmarks EXCEPT
                      !.locks[k] = Payload(888, BookmarksRootUrl, "lock", now, ""),
                      !.foreign = @ + 1], "foreign-lock", <<>>)

\* the send wrapper: the context of a bookmarks request is resolved eagerly
XhrSend ==
  \E req \in Requests :
    /\ ~bookmarks.xhr.open
    /\ bookmarks.issued < MaxRequests
    /\ \E cur \in {bookmarks} :
       \E ctx \in {IF req.bookmarks THEN resolveRequestBookmarkContext(cur, req, now)
                   ELSE NoContext} :
       \E c \in {IF req.bookmarks THEN setBookmarkContext(cur, ctx, now) ELSE cur} :
         ContextStep([c EXCEPT !.xhr = [open |-> TRUE, req |-> req, context |-> ctx],
                               !.issued = @ + 1], "xhr-send",
                     IF req.bookmarks
                       THEN <<cur.locks, getBookmarkContextLock(cur.locks, now)>>
                       ELSE <<>>)

\* the load listener of the wrapper: the message it posts
XhrLoad ==
  /\ bookmarks.xhr.open
  /\ \E cur \in {bookmarks} :
     \E req \in {cur.xhr.req} :
     \E ctx \in {IF cur.xhr.context.present THEN cur.xhr.context
                 ELSE IF req.bookmarks THEN resolveRequestBookmarkContext(cur, req, now)
                 ELSE NoContext} :
     \E c \in {IF req.bookmarks /\ ctx.present THEN setBookmarkContext(cur, ctx, now)
               ELSE cur} :
       ContextStep([c EXCEPT
                      !.xhr = [open |-> FALSE, req |-> NoRequest, context |-> NoContext],
                      !.message = [posted |-> TRUE, req |-> req,
                                   context |-> normalizeBookmarkContextValue(ctx, cur.page, now)]],
                   "xhr-load", <<>>)

\* a wrapper of an older revision posts a message without a context
LegacyPost ==
  \E req \in {r \in Requests : r.bookmarks /\ r.variablesId = 0 /\ r.bodyId = 0} :
    /\ bookmarks.issued < MaxRequests
    /\ ContextStep([bookmarks EXCEPT
                      !.message = [posted |-> TRUE, req |-> req, context |-> NoContext],
                      !.issued = @ + 1],
                   "legacy-post", <<>>)

\* the posted message reaches the listener of the manager
ManagerReceive ==
  /\ bookmarks.message.posted
  /\ hookStats.responsesProcessed + hookStats.responsesSkippedDuplicate < MaxDispatches
  /\ Receive([BaseMsg EXCEPT
                !.url = IF bookmarks.message.req.bookmarks THEN BookmarksUrl ELSE TimelineUrl,
                !.ids = [queryId |-> bookmarks.message.req.queryId,
                         variablesId |-> bookmarks.message.req.variablesId,
                         bodyId |-> bookmarks.message.req.bodyId],
                !.context = bookmarks.message.context.present,
                !.bookmarkContext = bookmarks.message.context])

ContextInit ==
  /\ \E page \in {Unpatched([safeMode |-> FALSE, hookMode |-> "both",
                               repairMode |-> "watchdog"])} :
     \E w \in {getExtensionManager(page, Calm)} :
     \E c \in {Collect(w)} : Holds(c)
  /\ hostMoves = 0
  /\ lastOp = [NoOp EXCEPT !.op = "getExtensionManager", !.mgr = 1]
  /\ lastCall = NoCall
  /\ now = Instants[1]
  /\ recentResponseSigs = <<>>
  /\ hookStats = createHookStats
  /\ dispatched = 0
  /\ lastDispatchAt = <<>>
  /\ lastSeenAt = <<>>
  /\ lastDelivery = NoDelivery
  /\ bookmarks = BookmarksIdle
  /\ traffic = TrafficIdle
  /\ capture = CaptureIdle

ContextNext ==
  \/ Navigate
  \/ Advance
  \/ ForeignLock
  \/ XhrSend
  \/ XhrLoad
  \/ LegacyPost
  \/ ManagerReceive

SpecContext == ContextInit /\ [][ContextNext]_vars

\* ======================================================================
\* useCaptureCount: the state machine
\* ======================================================================
MaxCaptureRequests == 5

Counts == {1, 2}

CaptureStep(c) ==
  /\ capture' = c
  /\ UNCHANGED <<hookVars, now, recentResponseSigs, hookStats, dispatched, lastDispatchAt,
                 lastSeenAt, lastDelivery, bookmarks, traffic>>

\* the callback of setInterval(..., 1500)
CaptureTimer ==
  /\ capture.interval
  /\ capture.requests < MaxCaptureRequests
  /\ CaptureStep(requestRefresh(capture))

StorageEvent ==
  \E key \in {"", "other-key", "__twe_capture_counts_v2", "__twe_db_mutation_v1"} :
    /\ capture.listening
    /\ capture.requests < MaxCaptureRequests
    /\ CaptureStep(onStorage(capture, key))

CaptureCountEvent ==
  \E targetExtension \in {"", ExtName, "other-ext"} :
    /\ capture.listening
    /\ capture.requests < MaxCaptureRequests
    /\ CaptureStep(onCaptureCountEvent(capture, targetExtension))

RefreshSettles ==
  \E ok \in BOOLEAN, next \in Counts :
    /\ capture.running > 0
    /\ CaptureStep(refreshSettled(capture, ok, next))

CaptureCleanup ==
  /\ ~capture.cleaned
  /\ CaptureStep(useCaptureCountCleanup(capture))

\* the subscription right after its effect ran, on a page without the script's hooks
CaptureInit ==
  /\ Holds(Unpatched([safeMode |-> FALSE, hookMode |-> "both", repairMode |-> "watchdog"]))
  /\ hostMoves = 0
  /\ lastOp = NoOp
  /\ lastCall = NoCall
  /\ now = 0
  /\ recentResponseSigs = <<>>
  /\ hookStats = createHookStats
  /\ dispatched = 0
  /\ lastDispatchAt = <<>>
  /\ lastSeenAt = <<>>
  /\ lastDelivery = NoDelivery
  /\ bookmarks = BookmarksIdle
  /\ traffic = TrafficIdle
  /\ capture = useCaptureCountEffect(CaptureIdle)

CaptureNext ==
  \/ CaptureTimer
  \/ StorageEvent
  \/ CaptureCountEvent
  \/ RefreshSettles
  \/ CaptureCleanup

\* the promise of getCaptureCountAcrossKnownDatabases settles: every await in
\* it is on an IndexedDB request or a local read
SpecCapture == CaptureInit /\ [][CaptureNext]_vars /\ WF_vars(RefreshSettles)

\* ======================================================================
\* Intercepted calls: the state machine
\* ======================================================================
MaxCalls == 3

CallUrls == {TimelineUrl, BookmarksUrl, OtherUrl}

InFlight == [bookmarks |-> bookmarks, traffic |-> traffic]

CallStep(c, op) ==
  /\ bookmarks' = c.bookmarks
  /\ traffic' = c.traffic
  /\ UNCHANGED capture
  /\ lastOp' = [NoOp EXCEPT !.op = op]
  /\ UNCHANGED <<fns, proto, pageAny, localStorage, options, mgrs, extensionManager,
                 globalManagerKey, hostMoves, lastCall>>
  /\ UNCHANGED <<now, recentResponseSigs, hookStats, dispatched, lastDispatchAt,
                 lastSeenAt, lastDelivery>>

XhrStatus == IF traffic.xhrs[1].current = 0 THEN "unsent"
             ELSE traffic.calls[traffic.xhrs[1].current].status

\* the host calls open() on its XMLHttpRequest object, new or used before
XhrOpenCall ==
  \E url \in CallUrls :
    /\ Len(traffic.calls) < MaxCalls
    /\ \E cur \in {InFlight} : \E c \in {openWrapper(cur, 1, url, now)} :
         CallStep(c, "xhr-open")

XhrSendCall ==
  /\ XhrStatus = "opened"
  /\ \E cur \in {InFlight} : \E c \in {sendWrapper(cur, 1, now)} : CallStep(c, "xhr-send")

\* the response has arrived: the browser fires 'load'
XhrLoaded ==
  /\ XhrStatus = "sent"
  /\ \E cur \in {InFlight} :
     \E c \in {dispatchEvent([cur EXCEPT !.traffic.calls[cur.traffic.xhrs[1].current].status
                                           = "completed"], 1, "load", now)} :
       CallStep(c, "xhr-loaded")

\* the request failed: the browser fires 'error'
XhrFailed ==
  /\ XhrStatus = "sent"
  /\ \E cur \in {InFlight} :
     \E c \in {dispatchEvent([cur EXCEPT !.traffic.calls[cur.traffic.xhrs[1].current].status
                                           = "failed"], 1, "error", now)} :
       CallStep(c, "xhr-failed")

FetchCall ==
  \E url \in CallUrls :
    /\ Len(traffic.calls) < MaxCalls
    /\ \E cur \in {InFlight} : \E c \in {fetchWrapperCall(cur, url, now)} :
         CallStep(c, "fetch-call")

FetchSettled ==
  \E k \in DOMAIN traffic.calls : \E ok \in BOOLEAN : \E textual \in BOOLEAN :
    /\ traffic.calls[k].point = "fetch"
    /\ traffic.calls[k].status = "pending"
    /\ \E cur \in {InFlight} : \E c \in {fetchWrapperSettled(cur, k, ok, textual)} :
         CallStep(c, "fetch-settled")

FetchBodyRead ==
  \E k \in DOMAIN traffic.calls : \E ok \in BOOLEAN : \E empty \in BOOLEAN :
    /\ traffic.calls[k].status = "reading"
    /\ \E cur \in {InFlight} : \E c \in {fetchCloneText(cur, k, ok, empty, now)} :
         CallStep(c, "fetch-body-read")

\* the oldest envelope on the wire reaches the listener of the manager
\* the message event an envelope of the wire arrives as
EnvelopeMsg(e) ==
  [BaseMsg EXCEPT !.url = e.url,
                  !.revision = e.revision,
                  !.body = e.body,
                  !.requestId = e.requestId,
                  !.context = e.context.present,
                  !.bookmarkContext = e.context]

EnvelopeArrives ==
  /\ traffic.wire # <<>>
  /\ \E e \in {Head(traffic.wire)} :
     \E msg \in {EnvelopeMsg(e)} :
       /\ ReceiveOn(msg)
       /\ traffic' = [traffic EXCEPT
                        !.wire = Tail(@),
                        !.delivered = Append(@, [of |-> e.of,
                                                 verdict |-> pageMessageHandler(Bridge, msg, now).verdict])]

CallsNext ==
  \/ XhrOpenCall
  \/ XhrSendCall
  \/ XhrLoaded
  \/ XhrFailed
  \/ FetchCall
  \/ FetchSettled
  \/ FetchBodyRead
  \/ EnvelopeArrives

SpecCalls == ContextInit /\ [][CallsNext]_vars

\* ======================================================================
\* Properties
\* ======================================================================

\* C1: every call made through an installed wrapper (a function at an
\* origination point that carries this system's marker with the current
\* revision) reaches the host's original function; the interception layer
\* never turns the call into a failure.
C1_WrapperReachesOriginal ==
  lastCall.viaHook => lastCall.outcome = "original"

\* the function at an origination point is a wrapper of this system that
\* carries the marker of the point with the current revision
Marked(point) ==
  LET f == PointFn(World, point) IN
  /\ f # 0
  /\ point \in fns[point][f].markers
  /\ fns[point][f].rev = HOOK_REVISION

HoldsCurrentWrapper(point) ==
  Marked(point) /\ fns[point][PointFn(World, point)].kind = "hook"

IsOriginal(point, f) == f # 0 /\ fns[point][f].kind = "native"

\* C5: an install call without force that directly follows the same install
\* call, which left a current wrapper at the points of its kind, changes
\* nothing: the origination points hold the same wrapper objects, the stored
\* originals are the same, no function is defined or marked.
C5_SecondInstallIsNoOp ==
  [][(/\ lastOp'.op = "install"
      /\ lastOp'.again
      /\ ~lastOp'.force
      /\ \A p \in KindPoints(lastOp'.kind) : HoldsCurrentWrapper(p))
     => (/\ fns' = fns
         /\ proto' = proto
         /\ pageAny' = pageAny
         /\ lastOp'.defined = {})]_vars

\* the fetch wrapper survived a second install without force, the stored
\* original is the host's function
C5_Witness ==
  /\ lastOp.op = "install"
  /\ lastOp.kind = "fetch"
  /\ lastOp.again
  /\ ~lastOp.force
  /\ lastOp.defined = {}
  /\ HoldsCurrentWrapper("fetch")
  /\ IsOriginal("fetch", pageAny.ORIG_FETCH_KEY)

\* C6: after an install call with force that ran (the kind is enabled for the
\* manager), the function at each origination point of the kind carries this
\* system's marker with the current revision, whatever was there before.
C6_ForceInstallMarksCurrent ==
  (/\ lastOp.op = "install"
   /\ lastOp.force
   /\ ~lastOp.failed
   /\ isHookModeEnabled(mgrs[lastOp.mgr], lastOp.kind))
  => \A p \in KindPoints(lastOp.kind) : Marked(p)

\* a forced install over a foreign patch of fetch: the new wrapper calls
\* through to the patch
C6_Witness ==
  /\ lastOp.op = "install"
  /\ lastOp.kind = "fetch"
  /\ lastOp.force
  /\ lastOp.defined = {"fetch"}
  /\ HoldsCurrentWrapper("fetch")
  /\ fns["fetch"][fns["fetch"][pageAny.fetch].base].kind = "foreign"

\* C7: from unpatched origination points, install then uninstallHooks()
\* leaves every origination point holding the host's original function; a
\* following install of a kind leaves each point of the kind holding a current
\* wrapper whose call-through target is that original (one wrapper on the way).
C7_InstallUninstallInstall ==
  /\ lastOp.trail = "iu" => \A p \in Points : IsOriginal(p, PointFn(World, p))
  /\ lastOp.trail = "iui" /\ lastOp.op = "install" =>
       \A p \in KindPoints(lastOp.kind) :
         /\ HoldsCurrentWrapper(p)
         /\ IsOriginal(p, CallThrough(World, p, PointFn(World, p)))
         /\ WrapCount(World, p, PointFn(World, p), MaxFns + 1) = 1

C7_Witness ==
  /\ lastOp.trail = "iui"
  /\ lastOp.op = "install"
  /\ lastOp.kind = "fetch"
  /\ HoldsCurrentWrapper("fetch")
  /\ IsOriginal("fetch", pageAny.ORIG_FETCH_KEY)
  /\ IsOriginal("open", proto.open)

\* C8: within one manager safeMode, once true, stays true, and no install
\* call or repair run of a manager whose safeMode is true defines a wrapper
\* or changes an origination point or a stored original.
C8_SafeModeMonotonic ==
  [][/\ \A i \in 1..Len(mgrs) :
          mgrs[i].runtimeModes.safeMode => mgrs'[i].runtimeModes.safeMode
     /\ (/\ lastOp'.op \in {"install", "repair", "repair-skipped"}
         /\ mgrs[lastOp'.mgr].runtimeModes.safeMode)
        => (/\ lastOp'.defined = {}
            /\ fns' = fns
            /\ proto' = proto
            /\ pageAny' = pageAny)]_vars

\* an install call with force on a manager the repair loop put in safe mode
C8_Witness ==
  /\ lastOp.op = "install"
  /\ lastOp.force
  /\ mgrs[lastOp.mgr].runtimeModes.safeMode
  /\ mgrs[lastOp.mgr].hookRepairFailures = HOOK_REPAIR_FAILURE_LIMIT
  /\ \A p \in Points : IsOriginal(p, PointFn(World, p))

\* C9: once HOOK_REPAIR_FAILURE_LIMIT consecutive repair runs of a manager
\* have failed, its safeMode is true and no repair timer is pending, and they
\* stay so: no repair run executes for it and none of its operations defines
\* a wrapper, whatever the page does afterwards.
C9_Exhausted(M, i) ==
  /\ M[i].runtimeModes.safeMode
  /\ M[i].hookRepairInterval = -1

C9_RepairStopsAtLimit ==
  [][\A i \in 1..Len(mgrs) :
       /\ mgrs'[i].hookRepairFailures >= HOOK_REPAIR_FAILURE_LIMIT => C9_Exhausted(mgrs', i)
       /\ mgrs[i].hookRepairFailures >= HOOK_REPAIR_FAILURE_LIMIT =>
            /\ C9_Exhausted(mgrs, i)
            /\ mgrs'[i].hookRepairFailures = mgrs[i].hookRepairFailures
            /\ lastOp'.mgr = i => (lastOp'.op # "repair" /\ lastOp'.defined = {})]_vars

\* the fifth failed run in a row
C9_Witness ==
  /\ lastOp.op = "repair"
  /\ mgrs[lastOp.mgr].hookRepairFailures = HOOK_REPAIR_FAILURE_LIMIT
  /\ C9_Exhausted(mgrs, lastOp.mgr)

\* a message that passed validation
Validated == lastDelivery.verdict \in {"processed", "duplicate"}

\* C2, as stated: a validated delivery to a non-exempt URL that arrives less
\* than the dedupe window after ANY earlier validated delivery with the same
\* (method, url, status, body hash) increments responsesSkippedDuplicate and
\* is not dispatched.
C2_DuplicateOfAnyDelivery ==
  (/\ Validated
   /\ ~lastDelivery.exempt
   /\ lastDelivery.prevSeenAt # -1
   /\ lastDelivery.at - lastDelivery.prevSeenAt < RESPONSE_DEDUPE_WINDOW_MS)
  => (lastDelivery.verdict = "duplicate" /\ lastDelivery.skipped = 1
      /\ lastDelivery.dispatched = 0)

\* C2, amended: a validated delivery to a non-exempt URL that arrives less
\* than the dedupe window after the most recent DISPATCHED delivery with the
\* same (method, url, status, body hash) increments responsesSkippedDuplicate
\* by one, is not counted as processed and is not dispatched.
C2_DuplicateOfDispatchedDelivery ==
  (/\ Validated
   /\ ~lastDelivery.exempt
   /\ lastDelivery.prevDispatchAt # -1
   /\ lastDelivery.at - lastDelivery.prevDispatchAt < RESPONSE_DEDUPE_WINDOW_MS)
  => (lastDelivery.verdict = "duplicate" /\ lastDelivery.skipped = 1
      /\ lastDelivery.processed = 0 /\ lastDelivery.dispatched = 0)

\* a second identical delivery, half a window after the first, was skipped
C2_Witness ==
  /\ lastDelivery.verdict = "duplicate"
  /\ ~lastDelivery.exempt
  /\ lastDelivery.prevDispatchAt # -1
  /\ lastDelivery.at > lastDelivery.prevDispatchAt
  /\ lastDelivery.at - lastDelivery.prevDispatchAt < RESPONSE_DEDUPE_WINDOW_MS
  /\ hookStats.responsesSkippedDuplicate = 1
  /\ dispatched = 1

\* C3: a validated delivery that arrives at least one dedupe window after the
\* most recent dispatched delivery with the same signature is dispatched and
\* counted as processed; a delivery suppressed as a duplicate records no
\* timestamp: every cache entry holds the time of the last dispatched
\* delivery with its signature.
C3_ProcessedAfterWindow ==
  /\ (/\ Validated
      /\ lastDelivery.prevDispatchAt # -1
      /\ lastDelivery.at - lastDelivery.prevDispatchAt >= RESPONSE_DEDUPE_WINDOW_MS)
     => (lastDelivery.verdict = "processed" /\ lastDelivery.processed = 1
         /\ lastDelivery.skipped = 0 /\ lastDelivery.dispatched = 1)
  /\ \A i \in DOMAIN recentResponseSigs :
       recentResponseSigs[i].at = At(lastDispatchAt, recentResponseSigs[i].sig)

\* dispatched, suppressed half a window later, dispatched again exactly one
\* window after the first
C3_Witness ==
  /\ lastDelivery.verdict = "processed"
  /\ ~lastDelivery.exempt
  /\ lastDelivery.prevDispatchAt # -1
  /\ lastDelivery.prevSeenAt > lastDelivery.prevDispatchAt
  /\ lastDelivery.at - lastDelivery.prevDispatchAt = RESPONSE_DEDUPE_WINDOW_MS

\* C4: the dedupe cache never holds more than RESPONSE_DEDUPE_MAX_ENTRIES
\* entries.
C4_CacheWithinCapacity ==
  Len(recentResponseSigs) <= RESPONSE_DEDUPE_MAX_ENTRIES

\* ---------------------------------------------------------------- C10
\* the object under the global manager key is stale: its identity signature
\* or its revision is not the running code's, or it reports itself disposed
StaleObject(M, c) ==
  /\ c \in 1..Len(M)
  /\ \/ ~M[c].signatureOk
     \/ M[c].revision # INDEX_EXTENSION_MANAGER_REVISION
     \/ M[c].disposed

\* the manager a getExtensionManager() step returned is one of the running code
ReturnedIsCurrent(M, r) ==
  /\ r \in 1..Len(M)
  /\ M[r].signatureOk
  /\ M[r].revision = INDEX_EXTENSION_MANAGER_REVISION
  /\ ~M[r].disposed

\* the step constructed a manager, published it under the global key and
\* returned it
FreshPublishedReturned ==
  /\ Len(mgrs') = Len(mgrs) + 1
  /\ mgrs'[Len(mgrs')].ours
  /\ lastOp'.mgr = Len(mgrs')
  /\ globalManagerKey' = Len(mgrs')
  /\ extensionManager' = Len(mgrs')

ModuleHoldsLiveManager ==
  extensionManager # 0 /\ ~mgrs[extensionManager].disposed

\* C10 as stated: getExtensionManager() returns a manager with the running
\* code's signature and revision that is not disposed, and whenever the object
\* published under the global key is stale, the call constructs a fresh
\* manager, publishes it under the global key and returns it.
C10_StalePublishedAlwaysReplaced ==
  [][lastOp'.op = "getExtensionManager"
     => /\ ReturnedIsCurrent(mgrs', lastOp'.mgr)
        /\ StaleObject(mgrs, globalManagerKey) => FreshPublishedReturned]_vars

\* C10 amended: getExtensionManager() returns a manager with the running
\* code's signature and revision that is not disposed, and whenever the module
\* holds no live manager of its own and the object published under the global
\* key is stale, the call constructs a fresh manager, publishes it under the
\* global key and returns it.
C10_StaleCandidateReplaced ==
  [][lastOp'.op = "getExtensionManager"
     => /\ ReturnedIsCurrent(mgrs', lastOp'.mgr)
        /\ (~ModuleHoldsLiveManager /\ StaleObject(mgrs, globalManagerKey))
             => FreshPublishedReturned]_vars

\* a stale object of another build was the published candidate and the call
\* returned a fresh manager that now sits under the global key
C10_Witness ==
  /\ lastOp.op = "getExtensionManager"
  /\ Len(mgrs) = 2
  /\ ~mgrs[1].ours
  /\ StaleObject(mgrs, 1)
  /\ lastOp.mgr = 2
  /\ mgrs[2].ours
  /\ ReturnedIsCurrent(mgrs, 2)
  /\ globalManagerKey = 2
  /\ extensionManager = 2

\* ---------------------------------------------------------------- C11
\* the managers of this build that are not disposed
LiveManagers(M) == {i \in 1..Len(M) : M[i].ours /\ ~M[i].disposed}

\* every manager object of the realm was made by getExtensionManager() of
\* this build
OnlyOwnManagers(M) == \A i \in 1..Len(M) : M[i].ours

\* the step is a getExtensionManager() call that rejected the candidate under
\* the global key and constructed a replacement
RejectedAndReplaced ==
  /\ lastOp'.op = "getExtensionManager"
  /\ Len(mgrs') = Len(mgrs) + 1
  /\ globalManagerKey # 0

Times(calls, call) == Cardinality({k \in DOMAIN calls : calls[k] = call})

C12_EveryEnabledInterceptorOnce ==
  [][hookStats'.responsesProcessed # hookStats.responsesProcessed
     => /\ lastDelivery'.verdict = "processed"
        /\ dispatched' = dispatched + 1
        /\ \A k \in DOMAIN mgrs[1].extensions :
             LET ext == mgrs[1].extensions[k] IN
               /\ Times(lastDelivery'.calls, <<"intercept", ext.id>>)
                    = IF ext.enabled THEN 1 ELSE 0
               /\ Times(lastDelivery'.calls, <<"interceptor", ext.id>>)
                    = IF ext.enabled /\ ext.intercept \in {"fn", "fn-throws"} THEN 1 ELSE 0]_vars

\* a dispatch in which the first consumer threw and the second was still invoked
C12_Witness ==
  /\ lastDelivery.verdict = "processed"
  /\ Len(mgrs[1].extensions) = 2
  /\ InterceptThrows(mgrs[1].extensions[1])
  /\ mgrs[1].extensions[2].intercept = "fn"
  /\ Times(lastDelivery.calls, <<"intercept", mgrs[1].extensions[1].id>>) = 1
  /\ Times(lastDelivery.calls, <<"interceptor", mgrs[1].extensions[2].id>>) = 1

\* ----------------------------------------------------------------------
\* C13: for a bookmarks request the context chosen is that of the
\* highest-ranked signal that is available, in the order id in the URL, id in
\* the body, context passed with the call, sticky lock, page heuristics,
\* fallback: in the context the wrapper resolves when the request is sent,
\* and in the context the manager hands to the consumers.
FirstAvailable(ids) ==
  IF \E k \in DOMAIN ids : ids[k] # 0
    THEN ids[CHOOSE k \in DOMAIN ids : ids[k] # 0 /\ \A j \in 1..(k - 1) : ids[j] = 0]
    ELSE 0

\* the folder each signal names before the step, 0 when the signal is absent
Signals(req, passed) ==
  <<extractFolderIdFromBookmarkRequestUrl(req),
    extractFolderIdFromBookmarkRequestBody(req),
    IF passed.present THEN passed.folderId ELSE 0,
    IF /\ getBookmarkContextLock(bookmarks.locks, now).present
       /\ isBookmarksRoute(bookmarks.page.url)
      THEN getBookmarkContextLock(bookmarks.locks, now).folderId ELSE 0,
    captureBookmarkRouteFromPage(bookmarks.page).folderId>>

\* the step is a send (a load) of the wrapper
SendStep == lastOp'.op = "xhr-send" /\ bookmarks'.issued # bookmarks.issued

LoadStep == lastOp'.op = "xhr-load" /\ bookmarks.xhr.open /\ ~bookmarks'.xhr.open

C13_StrictPriority ==
  [][/\ (SendStep /\ bookmarks'.xhr.req.bookmarks)
        => bookmarks'.xhr.context.folderId
             = FirstAvailable(Signals(bookmarks'.xhr.req, NoContext))
     /\ (hookStats' # hookStats /\ bookmarks.message.req.bookmarks)
        => bookmarks'.final.folderId
             = FirstAvailable(Signals(bookmarks.message.req, bookmarks.message.context))]_vars

\* ----------------------------------------------------------------------
\* C14: for a bookmarks request with a numeric folder id in its URL query
\* (a folder key, or inside the variables parameter) and no body, the context
\* that the wrapper resolves and sends names that folder with source
\* "request-url", whatever the page URL, the lock and the last context are.
C14_UrlIdResolved ==
  [][(/\ LoadStep
      /\ bookmarks'.message.req.bookmarks
      /\ extractFolderIdFromBookmarkRequestUrl(bookmarks'.message.req) # 0
      /\ bookmarks'.message.req.bodyId = 0)
     => /\ bookmarks'.message.context.folderId
             = extractFolderIdFromBookmarkRequestUrl(bookmarks'.message.req)
        /\ bookmarks'.message.context.source = "request-url"]_vars

\* ----------------------------------------------------------------------
\* C15: the lock lookup of a resolution at time now never returns a lock
\* with now - capturedAt > 180000 ms, whichever copy it reads (the module
\* variable or a copy under the global key), and the resolution is the one
\* it would be without the expired copies.
Expired(lock, t) == lock.present /\ t - lock.capturedAt > 180000

WithoutExpired(c, t) ==
  [c EXCEPT !.locks = [k \in 1..4 |-> IF Expired(c.locks[k], t) THEN NoContext ELSE c.locks[k]]]

C15_ExpiredLockNeverReturned ==
  [][(SendStep /\ bookmarks'.xhr.req.bookmarks)
     => /\ ~Expired(lastOp'.calls[2], now)
        /\ bookmarks'.xhr.context
             = resolveRequestBookmarkContext(WithoutExpired(bookmarks, now),
                                             bookmarks'.xhr.req, now)]_vars

\* a resolution that went to the lock while the module variable held an
\* expired lock and the copy under the key of window a fresh one
C15_Witness ==
  /\ lastOp.op = "xhr-send"
  /\ bookmarks.xhr.req.bookmarks
  /\ Expired(lastOp.calls[1][1], now)
  /\ lastOp.calls[2].present
  /\ lastOp.calls[2].folderId = 888
  /\ bookmarks.xhr.context.routeSource = "active-context-lock"
  /\ bookmarks.xhr.context.folderId = 888

\* ----------------------------------------------------------------------
\* C16: a bridge message that is dropped (no hook flag, no response part, no
\* request URL, or an origin that is not allowed) leaves everything as it
\* was: no consumer is called, no counter, no entry of the dedupe cache and
\* no part of the bookmark context state changes.
C16_DroppedSilently ==
  [][lastDelivery'.verdict = "dropped"
     => /\ lastDelivery'.calls = <<>>
        /\ UNCHANGED <<recentResponseSigs, hookStats, dispatched, lastDispatchAt, lastSeenAt>>
        /\ bookmarks' = bookmarks]_vars

\* ----------------------------------------------------------------------
\* C17: dispose() never throws and is idempotent: the first call on a
\* manager marks it disposed, disables every consumer, clears the repair
\* timer and removes the bridge listener; a call on a manager that is
\* already disposed changes nothing of the page or of any manager, whether
\* the manager was fully or partially initialised and whatever was
\* installed in between.
ProgramState ==
  <<fns, proto, pageAny, localStorage, options, mgrs, extensionManager,
    globalManagerKey, bridgeVars>>

C17_DisposeIdempotent ==
  [][lastOp'.op = "dispose"
     => /\ ~lastOp'.failed
        /\ mgrs'[lastOp'.mgr].disposed
        /\ mgrs'[lastOp'.mgr].hookRepairInterval = -1
        /\ ~mgrs'[lastOp'.mgr].pageMessageHandler
        /\ (mgrs[lastOp'.mgr].disposed
              => /\ UNCHANGED ProgramState
                 /\ lastOp'.calls = <<>>)]_vars

\* a second dispose() of a manager while the hooks of another manager are
\* installed on the page
C17_Witness ==
  /\ lastOp.op = "dispose"
  /\ lastOp.again
  /\ mgrs[lastOp.mgr].disposed
  /\ \E j \in 1..Len(mgrs) : j # lastOp.mgr /\ ~mgrs[j].disposed
                               /\ mgrs[j].hookRepairInterval # -1

\* ----------------------------------------------------------------------
\* C18: when dispose() has returned, no timer of the manager is pending (the
\* repair timer, the periodic polling of the page state), no listener or
\* observer of the manager is registered (the bridge listener, the
\* navigation and click listeners, the mutation observer), the origination
\* points hold their original functions, and no envelope reaches a consumer
\* afterwards.
C18_DisposeLeavesNothingBehind ==
  /\ [][lastOp'.op = "dispose"
        => /\ mgrs'[lastOp'.mgr].hookRepairInterval = -1
           /\ ~pageAny'.bookmark_context_interval
           /\ ~mgrs'[lastOp'.mgr].pageMessageHandler
           /\ ~pageAny'.bookmark_context_listeners
           /\ ~pageAny'.bookmark_context_click
           /\ ~pageAny'.bookmark_context_mutation
           /\ proto'.open # 0 /\ fns'["open"][proto'.open].kind = "native"
           /\ proto'.send # 0 /\ fns'["send"][proto'.send].kind = "native"
           /\ pageAny'.fetch # 0 /\ fns'["fetch"][pageAny'.fetch].kind = "native"]_vars
  /\ [][(mgrs[1].disposed /\ lastDelivery' # lastDelivery)
        => lastDelivery'.calls = <<>>]_vars

\* ----------------------------------------------------------------------
\* C19: add(ctor) leaves one instance per name in the registry: the instance
\* it made stands in the place of the previous instance of that name, every
\* instance of another name stays, and when the previous instance was
\* enabled its dispose() is called before the new instance is stored (and not
\* called otherwise); an add() whose constructor throws stores nothing.
AddStep ==
  /\ lastOp'.op = "add"
  /\ lastOp'.failed \/ mgrs'[1].made # mgrs[1].made

StoredIds(extensions) == {extensions[k].id : k \in DOMAIN extensions}

C19_AddReplacesPrevious ==
  [][AddStep =>
      LET old == mgrs[1].extensions
          new == mgrs'[1].extensions
          k == ExtensionIndex(old, lastOp'.kind)
          id == mgrs'[1].made
      IN /\ \A a, b \in DOMAIN new : new[a].name = new[b].name => a = b
         /\ lastOp'.failed => new = old /\ lastOp'.calls = <<>>
         /\ ~lastOp'.failed =>
              /\ id \notin StoredIds(old)
              /\ \E a \in DOMAIN new : new[a].name = lastOp'.kind /\ new[a].id = id
              /\ \A b \in DOMAIN old : old[b].name # lastOp'.kind => new[b] = old[b]
              /\ Len(new) = IF k = 0 THEN Len(old) + 1 ELSE Len(old)
              /\ k # 0 => old[k].id \notin StoredIds(new)
              /\ lastOp'.calls = IF k # 0 /\ old[k].enabled
                                   THEN << <<"dispose", old[k].id>>, <<"set", id>> >>
                                   ELSE << <<"set", id>> >>]_vars

\* an add() that replaced an enabled instance of the same name: the previous
\* instance was disposed, then the new one stored in its place
C19_Witness ==
  /\ lastOp.op = "add"
  /\ ~lastOp.failed
  /\ Len(lastOp.calls) = 2
  /\ lastOp.calls[1][1] = "dispose"
  /\ lastOp.calls[2] = <<"set", mgrs[1].made>>
  /\ Len(mgrs[1].extensions) = 1

\* ----------------------------------------------------------------------
\* C20: every enable(name) and every disable(name) call raises the change
\* signal of the registry by one, also a call that finds the consumer in the
\* requested state already and a call whose setup() or dispose() throws.
SwitchStep ==
  /\ lastOp'.op \in {"enable", "disable"}
  /\ lastOp' # lastOp \/ mgrs' # mgrs

C20_SignalCountsEveryCall ==
  [][SwitchStep => mgrs'[1].signal = mgrs[1].signal + 1]_vars

\* ----------------------------------------------------------------------
\* C21: an envelope is on the wire, or has reached the manager, only when
\* the real call it is the envelope of (the call its request id was made
\* for) has completed: for an XHR the load event was fired, for a fetch the
\* promise of the original fetch was fulfilled and the text of the cloned
\* response was read. No call that is still open, in flight, failed or
\* aborted has an envelope.
Completed(k) ==
  IF traffic.calls[k].point = "xhr" THEN traffic.calls[k].status = "completed"
  ELSE traffic.calls[k].status = "read"

CallOfRequestId(id) == CHOOSE k \in DOMAIN traffic.calls : traffic.calls[k].req_id = id

C21_EnvelopeOnlyAfterCompletion ==
  \A i \in DOMAIN traffic.wire : Completed(CallOfRequestId(traffic.wire[i].id))

\* ----------------------------------------------------------------------
\* C22: a manager that is constructed after a manager of the page entered
\* safe mode through enableSafeMode, the operator never having asked for safe
\* mode, starts with safeMode false.
EnteredSafeMode(i) == mgrs[i].ours /\ mgrs[i].runtimeModeReason # ""

C22_FreshInitializationExitsSafeMode ==
  [][(/\ lastOp'.op = "getExtensionManager"
      /\ Len(mgrs') = Len(mgrs) + 1
      /\ \E p \in 1..Len(mgrs) : EnteredSafeMode(p))
     => /\ ~resolveRuntimeModes(World).safeMode
        /\ \/ ~mgrs'[Len(mgrs')].runtimeModes.safeMode
           \/ mgrs'[Len(mgrs')].runtimeModeReason # ""]_vars

\* ----------------------------------------------------------------------
\* C23: whatever install calls were made (forced or not, over a current
\* wrapper, over a wrapper of an older revision, over a patch of the host),
\* the function stored under the key of the original is not one of the
\* wrappers this system made and marked, and the call-throughs that start at
\* an installed wrapper reach the host's original without passing a function
\* twice.
CarriesHookMarker(point, f) == fns[point][f].kind = "hook" /\ fns[point][f].markers # {}

C23_OriginalKeyAndChain ==
  \A point \in Points :
    /\ OrigKey(World, point) # 0 => ~CarriesHookMarker(point, OrigKey(World, point))
    /\ (PointFn(World, point) # 0 /\ fns[point][PointFn(World, point)].kind = "hook")
         => Invoke(World, point, PointFn(World, point), Len(fns[point]) + 1) = "original"

\* ----------------------------------------------------------------------
\* C24: an origination point holds a wrapper of this system only while a
\* manager has safeMode false and a hookMode that is 'both' or names the
\* point; once a manager has entered safe mode, every origination point
\* holds a function without hook marker and no repair timer is pending.
HoldsWrapper(point) ==
  /\ PointFn(World, point) # 0
  /\ fns[point][PointFn(World, point)].kind = "hook"

C24_WrapperOnlyWhenModesAllow ==
  /\ \A point \in Points :
       HoldsWrapper(point)
         => \E i \in 1..Len(mgrs) :
              /\ mgrs[i].ours
              /\ ~mgrs[i].runtimeModes.safeMode
              /\ mgrs[i].runtimeModes.hookMode \in {"both", PointKind(point)}
  /\ \A i \in 1..Len(mgrs) :
       (mgrs[i].ours /\ mgrs[i].runtimeModes.safeMode)
         => /\ mgrs[i].hookRepairInterval = -1
            /\ \A point \in Points : ~HoldsWrapper(point)

\* ----------------------------------------------------------------------
\* C25: the pair (hookRepairBackoffMs, hookRepairFailures) follows the table:
\* a repair run that succeeds sets it to (1100, 0); a run that fails, because
\* the re-install threw or because the self-test after it failed, sets it to
\* (min(2 * delay, 60000), failures + 1); the next run is scheduled with the
\* resulting delay, unless the failure limit is reached; so the delay stays
\* within 1100..60000 and the counter within 0..5.
RepairRan(outcome) == lastOp'.op = "repair" /\ <<"repair", outcome>> = lastOp'.calls[Len(lastOp'.calls)]

RepairPair(m) == <<m.hookRepairBackoffMs, m.hookRepairFailures>>

C25_BackoffTable ==
  /\ [][(lastOp'.op = "repair" /\ lastOp'.calls # <<>>) =>
         LET m == mgrs[lastOp'.mgr]
             n == mgrs'[lastOp'.mgr]
         IN /\ RepairRan("ok")
                 => /\ RepairPair(n) = <<HOOK_REPAIR_INTERVAL_MS, 0>>
                    /\ n.hookRepairInterval = HOOK_REPAIR_INTERVAL_MS
            /\ (RepairRan("catch") \/ RepairRan("self-test-failed"))
                 => /\ RepairPair(n) = <<Min(2 * m.hookRepairBackoffMs,
                                             HOOK_REPAIR_BACKOFF_MAX_MS),
                                         m.hookRepairFailures + 1>>
                    /\ n.hookRepairFailures < HOOK_REPAIR_FAILURE_LIMIT
                         => n.hookRepairInterval = n.hookRepairBackoffMs]_vars
  /\ [](\A i \in 1..Len(mgrs) :
          /\ mgrs[i].hookRepairBackoffMs \in HOOK_REPAIR_INTERVAL_MS..HOOK_REPAIR_BACKOFF_MAX_MS
          /\ mgrs[i].hookRepairFailures \in 0..HOOK_REPAIR_FAILURE_LIMIT)

\* ----------------------------------------------------------------------
\* C26: a repair run that fails while fewer than limit - 1 failures in a row
\* have been counted does not enter safe mode: the failure is counted and
\* the next run is scheduled with the backoff delay, whether the re-install
\* threw or the self-test after it failed.
C26_OnlyThresholdEscalates ==
  [][(/\ lastOp'.op = "repair" /\ lastOp'.calls # <<>>
      /\ RepairRan("catch") \/ RepairRan("self-test-failed")
      /\ mgrs[lastOp'.mgr].hookRepairFailures < HOOK_REPAIR_FAILURE_LIMIT - 1)
     => /\ ~mgrs'[lastOp'.mgr].runtimeModes.safeMode
        /\ mgrs'[lastOp'.mgr].hookRepairFailures = mgrs[lastOp'.mgr].hookRepairFailures + 1
        /\ mgrs'[lastOp'.mgr].hookRepairInterval = mgrs'[lastOp'.mgr].hookRepairBackoffMs]_vars

\* C27: a manager never has more than one repair timer pending, however
\* often its loop is started, and the timer handle it keeps is that timer;
\* while its repairMode is "off" or its safeMode is true no timer of it is
\* pending, and no repair run of such a manager defines a wrapper
LoopDisabled(i) ==
  mgrs[i].runtimeModes.safeMode \/ mgrs[i].runtimeModes.repairMode = "off"

C27_OneRepairTimer ==
  /\ [](\A i \in 1..Len(mgrs) : mgrs[i].ours =>
          /\ mgrs[i].pendingTimers <= 1
          /\ (mgrs[i].pendingTimers = 1) <=> (mgrs[i].hookRepairInterval # -1)
          /\ LoopDisabled(i) => mgrs[i].pendingTimers = 0)
  /\ [][\A i \in 1..Len(mgrs) :
          (/\ mgrs[i].ours /\ LoopDisabled(i)
           /\ lastOp'.op \in {"repair", "repair-skipped"} /\ lastOp'.mgr = i
           /\ mgrs' # mgrs)
          => lastOp'.defined = {}]_vars

\* the loop was started while the timer of the last repair run was pending,
\* and that timer is still the only one
C27_Witness ==
  /\ lastOp.op = "startHookRepairLoop"
  /\ mgrs[lastOp.mgr].pendingTimers = 1
  /\ mgrs[lastOp.mgr].hookRepairInterval = HOOK_REPAIR_INTERVAL_MS

\* C28: while a manager that is not disposed, not in safe mode and in
\* repairMode "watchdog" has an origination point enabled, a point that does
\* not hold a current-revision wrapper (the host overwrote it, or the
\* published uninstall() reset it) holds one again later, timers firing
Watching(point) ==
  \E i \in 1..Len(mgrs) :
    /\ Live(i)
    /\ ~mgrs[i].runtimeModes.safeMode
    /\ mgrs[i].runtimeModes.repairMode = "watchdog"
    /\ isHookModeEnabled(mgrs[i], PointKind(point))

C28_SelfHealing ==
  \A point \in Points :
    (Watching(point) /\ ~HoldsCurrentWrapper(point))
      ~> (HoldsCurrentWrapper(point) \/ ~Watching(point))

\* C29: a construction that finds an origination point of its hook mode
\* without a function, or after which such a point holds no wrapper of this
\* system (the patch was rejected), ends with the new manager in safe mode,
\* no wrapper at any point and no repair timer pending
PointAfter(point) ==
  IF point = "open" THEN proto'.open
  ELSE IF point = "send" THEN proto'.send
  ELSE pageAny'.fetch

WrapperAfter(point) ==
  /\ PointAfter(point) # 0
  /\ fns'[point][PointAfter(point)].kind = "hook"

Constructs ==
  /\ lastOp'.op = "getExtensionManager"
  /\ Len(mgrs') = Len(mgrs) + 1
  /\ mgrs'[Len(mgrs')].ours

ModeNames(m, point) == m.runtimeModes.hookMode \in {"both", PointKind(point)}

C29_UnavailableOrRejectedEndsInSafeMode ==
  [][Constructs =>
      LET m == mgrs'[Len(mgrs')] IN
      (\E point \in Points :
          /\ ModeNames(m, point)
          /\ PointFn(World, point) = 0 \/ ~WrapperAfter(point))
      => /\ m.runtimeModes.safeMode
         /\ \A p \in Points : ~WrapperAfter(p)
         /\ m.pendingTimers = 0]_vars

\* C30: a validated delivery whose URL is a bookmarks endpoint is dispatched
\* and counted as processed however recently an identical delivery was
\* dispatched, is never counted as a skipped duplicate, and leaves the
\* dedupe cache as it was
ExemptDelivered ==
  /\ lastDelivery'.exempt
  /\ lastDelivery'.verdict \notin {"none", "dropped"}
  /\ hookStats' # hookStats

C30_ExemptBypassesDedupe ==
  [][ExemptDelivered
      => /\ lastDelivery'.verdict = "processed"
         /\ hookStats'.responsesProcessed = hookStats.responsesProcessed + 1
         /\ hookStats'.responsesSkippedDuplicate = hookStats.responsesSkippedDuplicate
         /\ dispatched' = dispatched + 1
         /\ lastDelivery'.calls = runInterceptors(mgrs[1].extensions)
         /\ recentResponseSigs' = recentResponseSigs]_vars

\* a bookmarks delivery dispatched inside the window of an identical one
C30_Witness ==
  /\ lastDelivery.exempt
  /\ lastDelivery.verdict = "processed"
  /\ lastDelivery.prevDispatchAt # -1
  /\ lastDelivery.at - lastDelivery.prevDispatchAt < RESPONSE_DEDUPE_WINDOW_MS
  /\ hookStats.responsesProcessed = MaxDeliveries

\* C31: a delivery evicts nothing from the dedupe cache unless the cache
\* holds more than RESPONSE_DEDUPE_MAX_ENTRIES entries once the delivery is
\* recorded; what it evicts is older than the dedupe window, at most
\* RESPONSE_DEDUPE_CLEANUP_COUNT entries, and no entry that stays is older
\* than an evicted one; a delivery identical to one dispatched inside the
\* window is suppressed however many entries the cache holds
CacheSigs(map) == {map[i].sig : i \in DOMAIN map}

Evicted ==
  UNION {{i \in DOMAIN recentResponseSigs : recentResponseSigs[i].sig \notin kept} :
           kept \in {CacheSigs(recentResponseSigs')}}

C31_CleanupEvictsOnlyExpired ==
  [][/\ \A gone \in {Evicted} :
        /\ Len(recentResponseSigs) < RESPONSE_DEDUPE_MAX_ENTRIES => gone = {}
        /\ Cardinality(gone) <= RESPONSE_DEDUPE_CLEANUP_COUNT
        /\ \A i \in gone :
             /\ now - recentResponseSigs[i].at > RESPONSE_DEDUPE_WINDOW_MS
             /\ \A k \in DOMAIN recentResponseSigs \ gone :
                   recentResponseSigs[k].at >= recentResponseSigs[i].at
     /\ (/\ hookStats' # hookStats
         /\ lastDelivery'.prevDispatchAt # -1
         /\ lastDelivery'.at - lastDelivery'.prevDispatchAt < RESPONSE_DEDUPE_WINDOW_MS)
        => lastDelivery'.verdict = "duplicate"]_vars

\* a cleanup has evicted entries, in a burst in which a repeat was suppressed
C31_Witness ==
  /\ dispatched > RESPONSE_DEDUPE_MAX_ENTRIES
  /\ Len(recentResponseSigs) <= RESPONSE_DEDUPE_MAX_ENTRIES
  /\ hookStats.responsesSkippedDuplicate = 1

\* C32: every envelope on the bridge carries the current revision, a body
\* field, a request id and a context; in every state the listener counts a
\* message it accepts as repaired at the bridge exactly when the revision of
\* the message is absent or not the current one, or its request has no
\* request id, body or context; the arrival of an envelope of the wrappers
\* raises neither the repaired nor the legacy counter
NeedsRepair(msg) ==
  \/ msg.revision # HOOK_REVISION
  \/ ~msg.requestId
  \/ ~msg.body
  \/ ~msg.context

RepairedBy(handled) ==
  handled.hookStats.messagesRepairedAtBridge - hookStats.messagesRepairedAtBridge

C32_RepairedExactlyWhenLegacy ==
  /\ [](/\ \A i \in DOMAIN traffic.wire :
             /\ traffic.wire[i].revision = HOOK_REVISION
             /\ ~NeedsRepair(EnvelopeMsg(traffic.wire[i]))
         /\ \A msg \in Messages \cup {EnvelopeMsg(traffic.wire[k]) : k \in DOMAIN traffic.wire} :
             \A handled \in {pageMessageHandler(Bridge, msg, now)} :
               handled.verdict # "dropped"
                 => RepairedBy(handled) = (IF NeedsRepair(msg) THEN 1 ELSE 0))
  /\ [][traffic'.wire # traffic.wire /\ Len(traffic'.delivered) > Len(traffic.delivered)
          => /\ hookStats'.messagesRepairedAtBridge = hookStats.messagesRepairedAtBridge
             /\ hookStats'.messagesLegacyShape = hookStats.messagesLegacyShape]_vars

\* an envelope of the fetch wrapper and one of the XHR wrapper were
\* accepted, and none was counted as repaired
C32_Witness ==
  /\ \E i, j \in DOMAIN traffic.delivered :
       /\ traffic.calls[traffic.delivered[i].of].point = "fetch"
       /\ traffic.calls[traffic.delivered[j].of].point = "xhr"
       /\ traffic.delivered[i].verdict = "processed"
       /\ traffic.delivered[j].verdict = "processed"
  /\ hookStats.messagesRepairedAtBridge = 0

\* C33: a resolution of the send wrapper that finds no identifier of its own
\* and falls back to the sticky lock leaves the lock as it was: the lock a
\* lookup returns after the step has the identifier and the capturedAt of
\* the lock the resolution used
FellBackToLock ==
  /\ SendStep
  /\ bookmarks'.xhr.req.bookmarks
  /\ bookmarks'.xhr.context.routeSource = "active-context-lock"

C33_FallbackLeavesLock ==
  [][FellBackToLock
     => \A after \in {getBookmarkContextLock(bookmarks'.locks, now)} :
          /\ after.folderId = lastOp'.calls[2].folderId
          /\ after.capturedAt = lastOp'.calls[2].capturedAt]_vars

\* C34: a bookmarks request with no identifier in its URL or body, sent from
\* a page whose route names no folder, takes the identifier of the last
\* active context, through that context, when it is fresh and a usable lock
\* is there too; the resolution goes through the lock only when the last
\* active context is stale or has no identifier, and only on a bookmarks route
NoOwnIdentifier ==
  /\ SendStep
  /\ bookmarks'.xhr.req.bookmarks
  /\ extractFolderIdFromBookmarkRequestUrl(bookmarks'.xhr.req) = 0
  /\ extractFolderIdFromBookmarkRequestBody(bookmarks'.xhr.req) = 0
  /\ captureBookmarkRouteFromUrl(bookmarks.page.url) = 0

LastKnownFresh ==
  /\ bookmarks.activeBookmarkContext.folderId # 0
  /\ now - bookmarks.activeBookmarkContext.capturedAt
       <= BOOKMARK_CONTEXT_BOOKMARKS_ONLY_STALE_MS

LockHonored ==
  /\ getBookmarkContextLock(bookmarks.locks, now).present
  /\ isBookmarksRoute(bookmarks.page.url)

C34_LastKnownBeforeLock ==
  [][NoOwnIdentifier
     => /\ (LastKnownFresh /\ LockHonored)
            => /\ bookmarks'.xhr.context.folderId = bookmarks.activeBookmarkContext.folderId
               /\ bookmarks'.xhr.context.routeSource = "active-context"
        /\ bookmarks'.xhr.context.routeSource = "active-context-lock"
            => /\ ~LastKnownFresh
               /\ isBookmarksRoute(bookmarks.page.url)]_vars

\* C35: counter accounting of the bridge. From fresh stats, after any
\* sequence of bridge messages messagesTotal = responsesProcessed = the number
\* of envelopes dispatched to the registry and, for every endpoint entry,
\* received = processed + skippedDuplicate; and every message that passed
\* validation raises responsesProcessed + responsesSkippedDuplicate by exactly
\* one (a dropped one by nothing) and messagesLegacyShape by at most one.
Accounted(hs) == hs.responsesProcessed + hs.responsesSkippedDuplicate

C35_TotalsAgree ==
  /\ hookStats.messagesTotal = hookStats.responsesProcessed
  /\ hookStats.responsesProcessed = dispatched

C35_EndpointsBalance ==
  \A e \in DOMAIN hookStats.endpointStats :
    hookStats.endpointStats[e].received
      = hookStats.endpointStats[e].processed + hookStats.endpointStats[e].skippedDuplicate

C35_ValidatedCounted ==
  [][now' = now
     => Accounted(hookStats') - Accounted(hookStats)
          = Bump(lastDelivery'.verdict \in {"processed", "duplicate"})]_vars

C35_LegacyShapeOncePerMessage ==
  [][hookStats'.messagesLegacyShape - hookStats.messagesLegacyShape <= 1]_vars

C35_CounterAccounting ==
  /\ []C35_TotalsAgree
  /\ []C35_EndpointsBalance
  /\ C35_ValidatedCounted
  /\ C35_LegacyShapeOncePerMessage

\* C36: a delivery that is suppressed as a duplicate has no effect beyond the
\* duplicate counters: the process-wide active context and the sticky lock
\* are the same after the suppressed delivery as before it.
SuppressedDelivery == now' = now /\ lastDelivery'.verdict = "duplicate"

C36_SuppressedLeavesContext ==
  [][SuppressedDelivery
     => /\ bookmarks'.activeBookmarkContext = bookmarks.activeBookmarkContext
        /\ bookmarks'.locks = bookmarks.locks]_vars

\* C37: the lifetime of a sticky lock is bounded by the last independent
\* resolution. A resolution that falls back to the lock does not move the
\* lock's capturedAt forward, so the instant at which the lock the resolution
\* used runs out (its capturedAt + the TTL) stays the instant after which no
\* lock is returned, however many fallbacks arrive before it.
LockDeadline(lock) == lock.capturedAt + BOOKMARK_CONTEXT_LOCK_TTL_MS

C37_FallbackKeepsDeadline ==
  [][FellBackToLock
     => \A used \in {lastOp'.calls[2]} :
          /\ \A k \in DOMAIN bookmarks'.locks :
                bookmarks'.locks[k].present
                  => bookmarks'.locks[k].capturedAt <= used.capturedAt
          /\ ~getBookmarkContextLock(bookmarks'.locks, LockDeadline(used) + 1).present]_vars

\* C38: normalizing a context payload preserves its identifier and is
\* idempotent. For the context c the send wrapper resolved for a bookmarks
\* request, when it has an identifier: normalizeBookmarkContextValue(c) has
\* the identifier of c whatever the pageUrl of c is, normalizing the result
\* again changes nothing, and the identifier of c is the identifier stored as
\* the active context for that call.
Normalized(c) == normalizeBookmarkContextValue(c, bookmarks'.page, now)

C38_NormalizeIdempotent ==
  [][(SendStep /\ bookmarks'.xhr.context.folderId # 0)
     => \A once \in {Normalized(bookmarks'.xhr.context)} : Normalized(once) = once]_vars

C38_NormalizeKeepsIdentifier ==
  [][(SendStep /\ bookmarks'.xhr.context.folderId # 0)
     => \A c \in {bookmarks'.xhr.context} :
        \A once \in {Normalized(c)} :
          /\ once.folderId = c.folderId
          /\ Normalized(once) = once
          /\ bookmarks'.activeBookmarkContext.folderId = c.folderId]_vars

\* C39: when the construction of a manager completes with safeMode false,
\* every origination point enabled by its hookMode holds a wrapper of the
\* current revision, also when a stale runtime object with an uninstall()
\* entry point was published before the construction and also when
\* repairMode is "off".
CurrentWrapperAfter(point) ==
  /\ WrapperAfter(point)
  /\ fns'[point][PointAfter(point)].rev = HOOK_REVISION

StaleRuntimeBefore ==
  /\ pageAny.HOOK_RUNTIME_KEY.present
  /\ pageAny.HOOK_RUNTIME_KEY.rev # HOOK_REVISION \/ ~pageAny.HOOK_RUNTIME_KEY.signatureOk

C39_ConstructedMeansHooked ==
  [][(Constructs /\ ~mgrs'[Len(mgrs')].runtimeModes.safeMode)
     => \A point \in Points :
          ModeNames(mgrs'[Len(mgrs')], point) => CurrentWrapperAfter(point)]_vars

\* the same for the constructions that defined a wrapper at every point they
\* went for and found a stale runtime object
C39_StaleRuntimeLeavesHooks ==
  [][(/\ Constructs
      /\ ~mgrs'[Len(mgrs')].runtimeModes.safeMode
      /\ StaleRuntimeBefore
      /\ \A point \in Points :
            ModeNames(mgrs'[Len(mgrs')], point) => point \in lastOp'.defined)
     => \A point \in Points :
          ModeNames(mgrs'[Len(mgrs')], point) => CurrentWrapperAfter(point)]_vars

\* C40: within one useCaptureCount subscription refreshes are coalesced under
\* any interleaving of timer ticks, storage events and capture-count events.
\* At most one refresh is in flight at a time; the requests that arrive
\* during an in-flight refresh result in exactly one further refresh, which
\* starts when that one finishes, unless the cleanup has run by then, and in
\* none when no request arrived; every request made before the cleanup is
\* followed by a refresh that starts at or after the request, or by the
\* cleanup; after the cleanup no refresh starts and the count is never set.
Unserved == capture.servedUpTo < capture.requests

RefreshFinishes ==
  /\ capture' # capture
  /\ capture'.requests = capture.requests
  /\ capture'.cleaned = capture.cleaned

OneAtATime == capture.running <= 1

NothingAfterCleanup == ~capture.startedLate /\ ~capture.setLate

C40_RefreshesCoalesced ==
  /\ [](OneAtATime /\ NothingAfterCleanup)
  /\ [][RefreshFinishes
        => /\ capture'.started - capture.started
               = Bump(Unserved /\ ~capture.cleaned)
           /\ capture'.started > capture.started
               => capture'.servedUpTo = capture.requests]_vars
  /\ [](Unserved => <>(~Unserved \/ capture.cleaned))

C40_Witness ==
  /\ capture.cleaned
  /\ capture.running = 0
  /\ capture.started = 2
  /\ capture.requests = 3
  /\ capture.servedUpTo = capture.requests

\* C40 as stated: whether or not the cleanup comes in between
C40_EveryRequestRefreshed ==
  /\ [](OneAtATime /\ NothingAfterCleanup)
  /\ [][RefreshFinishes
        => /\ capture'.started - capture.started = Bump(Unserved)
           /\ capture'.started > capture.started
               => capture'.servedUpTo = capture.requests]_vars
  /\ [](Unserved => <>(~Unserved))

====
